---- MODULE Spec2Model ----
(***************************************************************************)
(* Verification model of the document-processing glue layer:               *)
(*   - the two in-process task queues (MemoryQueue, SimpleQueue),          *)
(*   - the attachment chunking and dispatch of sendEmailWithAttachments,   *)
(*   - the temp-file life cycle of the email pipelines and of analyzePDF.  *)
(* Every asynchronous function is cut at its awaits: one action is the     *)
(* code that runs between two suspension points of the event loop.         *)
(***************************************************************************)
EXTENDS Integers, Sequences, FiniteSets, TLC

\* ------------------------------------------------------------------------
\* Bounds of the model
\* ------------------------------------------------------------------------
MaxJobs == 2
MaxLoops == 2
MaxRetries == 1
MaxClears == 1

\* ------------------------------------------------------------------------
\* Program constants
\* ------------------------------------------------------------------------
MAX_ATTEMPTS == 3
maxConcurrent == 1

JobId == 1..MaxJobs
LoopId == 1..MaxLoops
ErrMsgs == {"e1", "e2"}
NoError == "none"

VARIABLES
    impl,               \* which queue implementation is deployed
    \* SimpleQueue
    sq_queue,           \* this.queue: sequence of job ids
    sq_processing,      \* this.processing
    sq_jobs,            \* the job objects: status, attempts, error, completedAt
    sq_map,             \* keys of this.jobs
    sq_loops,           \* running invocations of processQueue
    \* MemoryQueue
    mq_queue,           \* this.queue
    mq_isProcessing,    \* this.isProcessing
    mq_processingCount, \* this.processingCount
    mq_items,           \* the queueItem objects: status, error
    mq_loops,           \* running invocations of processQueue
    mq_timers,          \* pending setTimeout(() => this.processQueue(), 100)
    \* observation of the run (not program state)
    h_created,          \* number of enqueue/add calls so far
    h_started,          \* executions of a job since it was (re)queued
    h_outcomes,         \* their outcomes, oldest first
    h_total,            \* executions of a job since its creation
    h_retries,          \* manual retries of a job
    h_before,           \* jobs pending when a job was re-appended for retry
    h_firstStarts,      \* job ids in the order of their first execution
    h_lastErr,          \* message of the last failed execution of a job
    h_clears,           \* clear() calls so far
    h_clearLog,         \* clear() calls: what was pending, in flight, returned
    \* sendEmailWithAttachments
    em_variant,         \* which services/email.js is deployed
    em_config,          \* EMAIL_CONFIG has host, auth.user and auth.pass
    em_sizes,           \* fs.statSync(path).size of each attachment, in order
    em_pc,              \* position of the call
    em_chunks,          \* emailChunks: batches of attachment indexes
    em_i,               \* index of the batch being sent
    em_log,             \* sendMail calls and their outcomes, in order
    em_error,           \* the error the call rejected with
    \* email pipelines that materialise temp files
    cl_pipeline,        \* which pipeline runs
    cl_pc,              \* position of the run
    cl_dl,              \* state of each parallel download
    cl_disk,            \* temp files present on disk
    cl_tempFiles,       \* the tempFiles array
    cl_unlinked,        \* files whose deletion has been attempted
    \* analyzePDF
    pd_calls,           \* the concurrent invocations: variant and position
    pd_disk,            \* temp files present on disk, by invocation
    \* the webhook route and processWebhookData
    wh_variant,         \* which server is deployed
    wh_body,            \* req.body of the inbound call
    wh_pc,              \* position of the handler (and of the queued job)
    wh_path,            \* branch taken for the first event
    wh_res,             \* res.status(..) calls of the handler, in order
    wh_calls,           \* collaborator calls and their outcomes, in order
    wh_result,          \* how processWebhookData ended
    wh_attempts,        \* job.attempts of the queued job
    wh_job,             \* job.status of the queued job
    wh_unhandled,       \* a rejection left the handler
    wh_fileType,        \* fileType: what getFileType returned for the URL
    wh_returned,        \* fileType of the success result object
    wh_nullData,        \* the analysis resolved with null (the reply "null")
    \* updateIndividualProperties
    fl_variant,         \* which version runs
    fl_data,            \* extractedData
    fl_null,            \* extractedData is null (its fields read undefined)
    fl_pc,              \* position of the call
    fl_i,               \* index of the entry of propertiesToUpdate at hand
    fl_updates,         \* the updates array
    fl_writes,          \* updateProperty calls and their outcomes, in order
    \* temp files of concurrently running operations
    tp_ops,             \* the operations: kind, file id, position, path
    tp_now,             \* Date.now()
    tp_disk,            \* temp files present on disk and who wrote them
    tp_log              \* accesses to temp file paths, in order

sqv == <<sq_queue, sq_processing, sq_jobs, sq_map, sq_loops>>

mqv == <<mq_queue, mq_isProcessing, mq_processingCount, mq_items, mq_loops,
         mq_timers>>

hv == <<h_created, h_started, h_outcomes, h_total, h_retries, h_before,
        h_firstStarts, h_lastErr, h_clears>>

qvars == <<impl, sqv, mqv, hv>>

evars == <<em_variant, em_config, em_sizes, em_pc, em_chunks, em_i, em_log,
           em_error>>

cvars == <<cl_pipeline, cl_pc, cl_dl, cl_disk, cl_tempFiles, cl_unlinked>>

pvars == <<pd_calls, pd_disk>>

wvars == <<wh_variant, wh_body, wh_pc, wh_path, wh_res, wh_calls, wh_result,
           wh_attempts, wh_job, wh_unhandled, wh_fileType, wh_returned,
           wh_nullData>>

fvars == <<fl_variant, fl_data, fl_null, fl_pc, fl_i, fl_updates, fl_writes>>

tvars == <<tp_ops, tp_now, tp_disk, tp_log>>

\* what the queue steps other than clear() leave alone
xvars == <<h_clearLog, wvars, fvars, tvars>>

vars == <<qvars, evars, cvars, pvars, xvars>>

\* ------------------------------------------------------------------------
\* Array helpers (Array.prototype.shift / push)
\* ------------------------------------------------------------------------
Shift(q) == IF q = <<>> THEN <<>> ELSE Tail(q)

Push(q, x) == Append(q, x)

SeqElems(q) == {q[i] : i \in 1..Len(q)}

IdleLoop == [pc |-> "idle", job |-> 0]

ActiveLoops(loops) == {w \in LoopId : loops[w].pc # "idle"}

ExecLoops(loops) == {w \in LoopId : loops[w].pc = "exec"}

HasFreeLoop(loops) == \E w \in LoopId : loops[w].pc = "idle"

FreeLoop(loops) ==
    CHOOSE w \in LoopId :
        /\ loops[w].pc = "idle"
        /\ \A v \in LoopId : v < w => loops[v].pc # "idle"

\* ------------------------------------------------------------------------
\* SimpleQueue
\* ------------------------------------------------------------------------
SQ_NoJob == [status |-> "none", attempts |-> 0, error |-> NoError,
             completedAt |-> FALSE]

SQ_NewJob == [status |-> "queued", attempts |-> 0, error |-> NoError,
              completedAt |-> FALSE]

\* add(): "if (!this.processing) this.processQueue()"
SQ_AddStarts(processing) == ~processing

\* processQueue(): "if (this.processing || this.queue.length === 0) return"
SQ_Returns(processing, qlen) == processing \/ qlen = 0

\* processQueue(): "this.processing = true", before the first job is peeked
SQ_Gate_LateMut(processing) == processing

SQ_Gate(processing) == TRUE

\* processQueue(): "this.processing = false", after the while loop
SQ_Exit_StuckMut(processing) == processing

SQ_Exit(processing) == FALSE

\* the head of the loop body: job = queue[0]; status, attempts += 1
SQ_Begin_RunInlineMut(jobs, j) ==
    [jobs EXCEPT ![j].status = "completed", ![j].attempts = @ + 1]

SQ_Begin(jobs, j) ==
    [jobs EXCEPT ![j].status = "processing", ![j].attempts = @ + 1]

\* catch: "if (job.attempts >= job.maxAttempts)"
SQ_Exhausted_OffByOneMut(attempts) == attempts > MAX_ATTEMPTS

SQ_Exhausted(attempts) == attempts >= MAX_ATTEMPTS

\* catch, else branch: failedJob = queue.shift(); queue.push(failedJob)
SQ_Requeue_HeadMut(q) == q

SQ_Requeue(q) == IF q = <<>> THEN <<>> ELSE Push(Shift(q), Head(q))

\* A call of processQueue() up to its first await: the new flag, jobs and
\* loops, and the set of jobs whose execution it started.
SQ_processQueue(q, processing, jobs, loops) ==
    IF SQ_Returns(processing, Len(q)) \/ ~HasFreeLoop(loops)
    THEN [processing |-> processing, jobs |-> jobs, loops |-> loops,
          started |-> {}]
    ELSE [processing |-> SQ_Gate(processing),
          jobs |-> SQ_Begin(jobs, Head(q)),
          loops |-> [loops EXCEPT ![FreeLoop(loops)] =
                        [pc |-> "exec", job |-> Head(q)]],
          started |-> {Head(q)}]

\* history of a set of jobs whose execution starts in this step
NoteStarts(S) ==
    /\ h_started' = [j \in JobId |-> IF j \in S THEN h_started[j] + 1
                                     ELSE h_started[j]]
    /\ h_total' = [j \in JobId |-> IF j \in S THEN h_total[j] + 1
                                   ELSE h_total[j]]
    /\ h_firstStarts' =
           IF S # {} /\ \E j \in S : h_total[j] = 0
           THEN Append(h_firstStarts, CHOOSE j \in S : h_total[j] = 0)
           ELSE h_firstStarts

\* the message of a job's last failure is forgotten when it starts again
ClearErr(S, errs) == [j \in JobId |-> IF j \in S THEN NoError ELSE errs[j]]

SQ_Add ==
    /\ impl = "simple"
    /\ h_created < MaxJobs
    /\ LET j == h_created + 1
           q == Push(sq_queue, j)
           jobs == [sq_jobs EXCEPT ![j] = SQ_NewJob]
           r == IF SQ_AddStarts(sq_processing)
                THEN SQ_processQueue(q, sq_processing, jobs, sq_loops)
                ELSE [processing |-> sq_processing, jobs |-> jobs,
                      loops |-> sq_loops, started |-> {}]
       IN  /\ sq_queue' = q
           /\ sq_map' = sq_map \cup {j}
           /\ sq_processing' = r.processing
           /\ sq_jobs' = r.jobs
           /\ sq_loops' = r.loops
           /\ h_created' = j
           /\ NoteStarts(r.started)
           /\ h_before' = [k \in JobId |-> h_before[k] \ r.started]
           /\ h_lastErr' = ClearErr(r.started, h_lastErr)
    /\ UNCHANGED <<impl, mqv, evars, cvars, pvars, xvars, h_outcomes, h_retries,
                   h_clears>>

\* "await processWebhookData(job.data)" resolves
SQ_JobSucceeds(w) ==
    /\ impl = "simple"
    /\ sq_loops[w].pc = "exec"
    /\ LET j == sq_loops[w].job
       IN  /\ sq_jobs' = [sq_jobs EXCEPT ![j].status = "completed",
                                         ![j].completedAt = TRUE]
           /\ sq_queue' = Shift(sq_queue)
           /\ sq_loops' = [sq_loops EXCEPT ![w].pc = "delay"]
           /\ h_outcomes' = [h_outcomes EXCEPT ![j] = Append(@, "ok")]
    /\ UNCHANGED <<impl, sq_processing, sq_map, mqv, evars, cvars, pvars, xvars,
                   h_created, h_started, h_total, h_retries, h_before,
                   h_firstStarts, h_lastErr, h_clears>>

\* "await processWebhookData(job.data)" rejects with Error(msg)
SQ_JobFails(w, msg) ==
    /\ impl = "simple"
    /\ sq_loops[w].pc = "exec"
    /\ LET j == sq_loops[w].job
       IN  /\ IF SQ_Exhausted(sq_jobs[j].attempts)
              THEN /\ sq_jobs' = [sq_jobs EXCEPT ![j].status = "failed",
                                                ![j].error = msg]
                   /\ sq_queue' = Shift(sq_queue)
                   /\ h_before' = h_before
              ELSE /\ sq_jobs' = sq_jobs
                   /\ sq_queue' = SQ_Requeue(sq_queue)
                   /\ h_before' = [h_before EXCEPT
                                      ![j] = SeqElems(sq_queue) \ {j}]
           /\ sq_loops' = [sq_loops EXCEPT ![w].pc = "delay"]
           /\ h_outcomes' = [h_outcomes EXCEPT ![j] = Append(@, "fail")]
           /\ h_lastErr' = [h_lastErr EXCEPT ![j] = msg]
    /\ UNCHANGED <<impl, sq_processing, sq_map, mqv, evars, cvars, pvars, xvars,
                   h_created, h_started, h_total, h_retries,
                   h_firstStarts, h_clears>>

\* the 1000 ms delay between jobs elapses: the while condition is tested
SQ_DelayEnds(w) ==
    /\ impl = "simple"
    /\ sq_loops[w].pc = "delay"
    /\ IF Len(sq_queue) > 0
       THEN LET j == Head(sq_queue)
            IN  /\ sq_jobs' = SQ_Begin(sq_jobs, j)
                /\ sq_loops' = [sq_loops EXCEPT ![w] =
                                   [pc |-> "exec", job |-> j]]
                /\ sq_processing' = sq_processing
                /\ NoteStarts({j})
                /\ h_before' = [k \in JobId |-> h_before[k] \ {j}]
                /\ h_lastErr' = ClearErr({j}, h_lastErr)
       ELSE /\ sq_processing' = SQ_Exit(sq_processing)
            /\ sq_loops' = [sq_loops EXCEPT ![w] = IdleLoop]
            /\ UNCHANGED <<sq_jobs, h_started, h_total, h_firstStarts,
                           h_before, h_lastErr>>
    /\ UNCHANGED <<impl, sq_queue, sq_map, mqv, evars, cvars, pvars, xvars,
                   h_created, h_outcomes, h_retries, h_clears>>

\* retry route: "if (job.status !== 'failed') return res.status(400)"
SQ_Retryable_AnyUnfinishedMut(job) == job.status \in {"failed", "processing"}

SQ_Retryable(job) == job.status = "failed"

\* POST /api/job/:jobId/retry
SQ_Retry(j) ==
    /\ impl = "simple"
    /\ j \in sq_map
    /\ SQ_Retryable(sq_jobs[j])
    /\ h_retries[j] < MaxRetries
    /\ LET q == Push(sq_queue, j)
           jobs == [sq_jobs EXCEPT ![j].status = "queued",
                                   ![j].attempts = 0,
                                   ![j].error = NoError]
           r == IF SQ_AddStarts(sq_processing)
                THEN SQ_processQueue(q, sq_processing, jobs, sq_loops)
                ELSE [processing |-> sq_processing, jobs |-> jobs,
                      loops |-> sq_loops, started |-> {}]
       IN  /\ sq_queue' = q
           /\ sq_processing' = r.processing
           /\ sq_jobs' = r.jobs
           /\ sq_loops' = r.loops
           /\ h_retries' = [h_retries EXCEPT ![j] = @ + 1]
           /\ h_started' = [k \in JobId |->
                               IF k = j
                               THEN (IF j \in r.started THEN 1 ELSE 0)
                               ELSE IF k \in r.started
                                    THEN h_started[k] + 1
                                    ELSE h_started[k]]
           /\ h_total' = [k \in JobId |-> IF k \in r.started
                                          THEN h_total[k] + 1
                                          ELSE h_total[k]]
           /\ h_outcomes' = [h_outcomes EXCEPT ![j] = <<>>]
           /\ h_before' = [k \in JobId |-> h_before[k] \ r.started]
           /\ h_lastErr' = ClearErr(r.started \cup {j}, h_lastErr)
    /\ UNCHANGED <<impl, sq_map, mqv, evars, cvars, pvars, xvars,
                   h_created, h_firstStarts, h_clears>>

\* cleanupOldJobs(): deletes from the map the jobs whose completedAt is
\* older than the cutoff; any completed job may have grown that old.
SQ_CleanupOldJobs(old) ==
    /\ impl = "simple"
    /\ old # {}
    /\ old \subseteq {j \in sq_map : sq_jobs[j].completedAt}
    /\ sq_map' = sq_map \ old
    /\ UNCHANGED <<impl, sq_queue, sq_processing, sq_jobs, sq_loops,
                   mqv, evars, cvars, pvars, xvars, h_created, h_started, h_outcomes,
                   h_total, h_retries, h_before, h_firstStarts, h_lastErr,
                   h_clears>>

\* ------------------------------------------------------------------------
\* MemoryQueue
\* ------------------------------------------------------------------------
MQ_NoItem == [status |-> "none", error |-> NoError]

MQ_NewItem == [status |-> "queued", error |-> NoError]

\* enqueue(): "if (!this.isProcessing) this.processQueue()"
MQ_EnqueueStarts(isProcessing) == ~isProcessing

\* processQueue(): "if (this.isProcessing || this.queue.length === 0) return"
MQ_Returns(isProcessing, qlen) == isProcessing \/ qlen = 0

\* processQueue(): "this.isProcessing = true", before the first shift
MQ_Gate_LateMut(isProcessing) == isProcessing

MQ_Gate(isProcessing) == TRUE

\* One test of the while condition by loop w, up to the next await.  Either
\* the head is shifted out and its task called, or the loop is left:
\* isProcessing = false, and a timer is armed when items are still queued.
MQ_Iterate(q, isProcessing, count, items, loops, timers, w) ==
    IF Len(q) > 0 /\ count < maxConcurrent
    THEN [queue |-> Shift(q), isProcessing |-> isProcessing,
          count |-> count + 1,
          items |-> [items EXCEPT ![Head(q)].status = "processing"],
          loops |-> [loops EXCEPT ![w] = [pc |-> "exec", job |-> Head(q)]],
          timers |-> timers, started |-> {Head(q)}]
    ELSE [queue |-> q, isProcessing |-> FALSE, count |-> count,
          items |-> items, loops |-> [loops EXCEPT ![w] = IdleLoop],
          timers |-> IF Len(q) > 0 THEN timers + 1 ELSE timers,
          started |-> {}]

MQ_Unchanged(q, isProcessing, count, items, loops, timers) ==
    [queue |-> q, isProcessing |-> isProcessing, count |-> count,
     items |-> items, loops |-> loops, timers |-> timers, started |-> {}]

\* A call of processQueue() up to its first await.
MQ_processQueue(q, isProcessing, count, items, loops, timers) ==
    IF MQ_Returns(isProcessing, Len(q)) \/ ~HasFreeLoop(loops)
    THEN MQ_Unchanged(q, isProcessing, count, items, loops, timers)
    ELSE MQ_Iterate(q, MQ_Gate(isProcessing), count, items, loops, timers,
                    FreeLoop(loops))

MQ_Apply(r, errs) ==
    /\ h_lastErr' = ClearErr(r.started, errs)
    /\ mq_queue' = r.queue
    /\ mq_isProcessing' = r.isProcessing
    /\ mq_processingCount' = r.count
    /\ mq_items' = r.items
    /\ mq_loops' = r.loops
    /\ mq_timers' = r.timers
    /\ NoteStarts(r.started)

MQ_Enqueue ==
    /\ impl = "memory"
    /\ h_created < MaxJobs
    /\ LET t == h_created + 1
           q == Push(mq_queue, t)
           items == [mq_items EXCEPT ![t] = MQ_NewItem]
       IN  /\ MQ_Apply(IF MQ_EnqueueStarts(mq_isProcessing)
                       THEN MQ_processQueue(q, mq_isProcessing,
                                mq_processingCount, items, mq_loops,
                                mq_timers)
                       ELSE MQ_Unchanged(q, mq_isProcessing,
                                mq_processingCount, items, mq_loops,
                                mq_timers), h_lastErr)
           /\ h_created' = t
    /\ UNCHANGED <<impl, sqv, evars, cvars, pvars, xvars, h_outcomes, h_retries,
                   h_before, h_clears>>

\* "await queueItem.task()" resolves; finally; next test of the condition
MQ_TaskSucceeds(w) ==
    /\ impl = "memory"
    /\ mq_loops[w].pc = "exec"
    /\ LET t == mq_loops[w].job
           items == [mq_items EXCEPT ![t].status = "completed"]
       IN  /\ MQ_Apply(MQ_Iterate(mq_queue, mq_isProcessing,
                           mq_processingCount - 1, items, mq_loops,
                           mq_timers, w), h_lastErr)
           /\ h_outcomes' = [h_outcomes EXCEPT ![t] = Append(@, "ok")]
    /\ UNCHANGED <<impl, sqv, evars, cvars, pvars, xvars, h_created, h_retries,
                   h_before, h_clears>>

\* "await queueItem.task()" rejects with Error(msg); finally; next test
MQ_TaskFails(w, msg) ==
    /\ impl = "memory"
    /\ mq_loops[w].pc = "exec"
    /\ LET t == mq_loops[w].job
           items == [mq_items EXCEPT ![t].status = "failed",
                                     ![t].error = msg]
       IN  /\ MQ_Apply(MQ_Iterate(mq_queue, mq_isProcessing,
                           mq_processingCount - 1, items, mq_loops,
                           mq_timers, w),
                       [h_lastErr EXCEPT ![t] = msg])
           /\ h_outcomes' = [h_outcomes EXCEPT ![t] = Append(@, "fail")]
    /\ UNCHANGED <<impl, sqv, evars, cvars, pvars, xvars, h_created, h_retries,
                   h_before, h_clears>>

\* The timer armed after the loop ("setTimeout(() => this.processQueue(),
\* 100)" when items are left) has no step of its own: the loop is left only
\* on an empty queue, so mq_timers stays 0 (part of C4_State).

\* clear(): "const clearedCount = this.queue.length"
MQ_ClearedCount(q) == Len(q)

\* clear(): "this.queue = []"
MQ_Emptied_KeepHeadMut(q) == IF q = <<>> THEN <<>> ELSE <<Head(q)>>

MQ_Emptied(q) == <<>>

\* clear()
MQ_Clear ==
    /\ impl = "memory"
    /\ h_clears < MaxClears
    /\ mq_queue' = MQ_Emptied(mq_queue)
    /\ h_clears' = h_clears + 1
    /\ h_clearLog' = Append(h_clearLog,
           [pending |-> mq_queue,
            inflight |-> {mq_loops[w].job : w \in ExecLoops(mq_loops)},
            returned |-> MQ_ClearedCount(mq_queue)])
    /\ UNCHANGED <<impl, sqv, mq_isProcessing, mq_processingCount, mq_items,
                   mq_loops, mq_timers, evars, cvars, pvars, wvars, fvars,
                   tvars,
                   h_created,
                   h_started, h_outcomes, h_total, h_retries, h_before,
                   h_firstStarts, h_lastErr>>

\* getStatus(): a read of this.queue, this.processingCount and
\* this.isProcessing in one turn of the event loop
MQ_getStatus(q, count, isProcessing, items) ==
    [queued |-> Len(q),
     processing |-> count,
     isProcessing |-> isProcessing,
     totalInSystem |-> Len(q) + count,
     queueItems |-> [i \in 1..Len(q) |->
                        [id |-> q[i], status |-> items[q[i]].status]]]

\* getQueueStatus(): "queued: this.queue.length, processing:
\* this.processing ? 1 : 0", and counts over this.jobs.values()
SQ_getQueueStatus(q, processing, jobs, map) ==
    [queued |-> Len(q),
     processing |-> IF processing THEN 1 ELSE 0,
     totalJobs |-> Cardinality(map),
     completed |-> Cardinality({j \in map : jobs[j].status = "completed"}),
     failed |-> Cardinality({j \in map : jobs[j].status = "failed"})]

\* ------------------------------------------------------------------------
\* The queues: initial state and steps
\* ------------------------------------------------------------------------
QInit ==
    /\ impl \in {"simple", "memory"}
    /\ sq_queue = <<>>
    /\ sq_processing = FALSE
    /\ sq_jobs = [j \in JobId |-> SQ_NoJob]
    /\ sq_map = {}
    /\ sq_loops = [w \in LoopId |-> IdleLoop]
    /\ mq_queue = <<>>
    /\ mq_isProcessing = FALSE
    /\ mq_processingCount = 0
    /\ mq_items = [j \in JobId |-> MQ_NoItem]
    /\ mq_loops = [w \in LoopId |-> IdleLoop]
    /\ mq_timers = 0
    /\ h_created = 0
    /\ h_started = [j \in JobId |-> 0]
    /\ h_outcomes = [j \in JobId |-> <<>>]
    /\ h_total = [j \in JobId |-> 0]
    /\ h_retries = [j \in JobId |-> 0]
    /\ h_before = [j \in JobId |-> {}]
    /\ h_firstStarts = <<>>
    /\ h_lastErr = [j \in JobId |-> NoError]
    /\ h_clears = 0
    /\ h_clearLog = <<>>

\* ------------------------------------------------------------------------
\* sendEmailWithAttachments: chunking and dispatch
\* ------------------------------------------------------------------------
MaxFiles == 4

MB == 1024 * 1024

\* three versions of services/email.js:
\*   "smtp"       src/services/email.js          4MB, no skip, no catch
\*   "smtp_skip"  src/unnamed/part_004:1-118     24MB, skip, catch rethrows
\*   "mailtrap"   src/unnamed/part_003:30-127    3MB, skip, catch logs only
EmVariants == {"smtp", "smtp_skip", "mailtrap"}

MAX_SIZE_PER_EMAIL(v) ==
    CASE v = "smtp" -> 4 * MB
      [] v = "smtp_skip" -> 24 * MB
      [] v = "mailtrap" -> 3 * MB

\* "if (fileSize > MAX_SIZE_PER_EMAIL) continue" is present
SkipsOversized(v) == v \in {"smtp_skip", "mailtrap"}

\* the catch around sendMail re-throws (or there is no catch at all)
Rethrows(v) == v \in {"smtp", "smtp_skip"}

\* a delay separates two consecutive sends
Delays(v) == v \in {"smtp_skip", "mailtrap"}

\* "if (!config.EMAIL_CONFIG.host || !config.EMAIL_CONFIG.auth.user ||
\* !config.EMAIL_CONFIG.auth.pass) throw" opens the function (the Mailtrap
\* version tests its token when the module loads, not in the call)
ChecksConfig(v) == v \in {"smtp", "smtp_skip"}

\* fs.statSync throws for a size of Unreadable
Unreadable == 0 - 1

\* "currentSize + fileSize > MAX_SIZE_PER_EMAIL"
WouldExceed_StrictMut(currentSize, fileSize, max) ==
    currentSize + fileSize >= max

WouldExceed(currentSize, fileSize, max) == currentSize + fileSize > max

\* one iteration of "for (const attachment of attachments)" on file i
ChunkStep_DropMut(st, i, fileSize, max, skip) ==
    IF fileSize = Unreadable THEN st
    ELSE IF skip /\ fileSize > max THEN st
    ELSE IF WouldExceed(st.size, fileSize, max) /\ Len(st.cur) > 0
    THEN [chunks |-> Append(st.chunks, st.cur), cur |-> <<>>, size |-> 0]
    ELSE [chunks |-> st.chunks, cur |-> Append(st.cur, i),
          size |-> st.size + fileSize]

ChunkStep(st, i, fileSize, max, skip) ==
    IF fileSize = Unreadable THEN st
    ELSE IF skip /\ fileSize > max THEN st
    ELSE IF WouldExceed(st.size, fileSize, max) /\ Len(st.cur) > 0
    THEN [chunks |-> Append(st.chunks, st.cur), cur |-> <<i>>,
          size |-> fileSize]
    ELSE [chunks |-> st.chunks, cur |-> Append(st.cur, i),
          size |-> st.size + fileSize]

RECURSIVE ChunkLoop(_, _, _, _, _)
ChunkLoop(sizes, i, st, max, skip) ==
    IF i > Len(sizes) THEN st
    ELSE ChunkLoop(sizes, i + 1, ChunkStep(st, i, sizes[i], max, skip),
                   max, skip)

\* emailChunks after the loop and "if (currentChunk.length > 0) push"
EmailChunks(sizes, max, skip) ==
    LET st == ChunkLoop(sizes, 1,
                        [chunks |-> <<>>, cur |-> <<>>, size |-> 0],
                        max, skip)
    IN  IF Len(st.cur) > 0 THEN Append(st.chunks, st.cur) ELSE st.chunks

SizeChoices(max) ==
    {Unreadable, max \div 4, max \div 2, max, max + 1, (3 * max) \div 2}

SendEv(b) == [ev |-> "send", batch |-> b]

EInit ==
    /\ em_variant \in EmVariants
    /\ em_config \in BOOLEAN
    /\ em_sizes \in UNION {[1..n -> SizeChoices(MAX_SIZE_PER_EMAIL(em_variant))]
                              : n \in 0..MaxFiles}
    /\ em_pc = "start"
    /\ em_chunks = <<>>
    /\ em_i = 0
    /\ em_log = <<>>
    /\ em_error = NoError

EIdle ==
    /\ em_variant = "smtp"
    /\ em_config = TRUE
    /\ em_sizes = <<>>
    /\ em_pc = "start"
    /\ em_chunks = <<>>
    /\ em_i = 0
    /\ em_log = <<>>
    /\ em_error = NoError

\* the call up to its first await: the configuration test, which rejects
\* the call before anything else is done, then the chunking loop, then
\* either the first sendMail or, without any chunk, the return
EM_Chunk ==
    /\ em_pc = "start"
    /\ IF ChecksConfig(em_variant) /\ ~em_config
       THEN /\ em_pc' = "threw"
            /\ em_error' = "Email configuration missing"
            /\ UNCHANGED <<em_chunks, em_i, em_log>>
       ELSE LET chunks == EmailChunks(em_sizes,
                                      MAX_SIZE_PER_EMAIL(em_variant),
                                      SkipsOversized(em_variant))
            IN  /\ em_chunks' = chunks
                /\ em_error' = em_error
                /\ IF Len(chunks) = 0
                   THEN /\ em_pc' = "returned"
                        /\ UNCHANGED <<em_i, em_log>>
                   ELSE /\ em_pc' = "sending"
                        /\ em_i' = 1
                        /\ em_log' = Append(em_log, SendEv(1))
    /\ UNCHANGED <<em_variant, em_config, em_sizes, qvars, cvars, pvars,
                   xvars>>

\* what follows a settled send of batch em_i that does not end the call
EM_Continue(log) ==
    IF em_i >= Len(em_chunks)
    THEN /\ em_pc' = "returned"
         /\ em_i' = em_i
         /\ em_log' = log
    ELSE IF Delays(em_variant)
    THEN /\ em_pc' = "delay"
         /\ em_i' = em_i
         /\ em_log' = log
    ELSE /\ em_pc' = "sending"
         /\ em_i' = em_i + 1
         /\ em_log' = Append(log, SendEv(em_i + 1))

\* "await transporter.sendMail(mailOptions)" resolves
EM_SendOk ==
    /\ em_pc = "sending"
    /\ EM_Continue(Append(em_log, [ev |-> "ok", batch |-> em_i]))
    /\ UNCHANGED <<em_variant, em_config, em_sizes, em_chunks, em_error,
                   qvars, cvars, pvars, xvars>>

\* "await transporter.sendMail(mailOptions)" rejects with Error(msg)
EM_SendFail(msg) ==
    /\ em_pc = "sending"
    /\ IF Rethrows(em_variant)
       THEN /\ em_pc' = "threw"
            /\ em_error' = msg
            /\ em_i' = em_i
            /\ em_log' = Append(em_log, [ev |-> "fail", batch |-> em_i])
       ELSE /\ EM_Continue(Append(em_log, [ev |-> "fail", batch |-> em_i]))
            /\ em_error' = em_error
    /\ UNCHANGED <<em_variant, em_config, em_sizes, em_chunks, qvars, cvars,
                   pvars, xvars>>

\* the delay between two emails elapses: next iteration of the send loop
EM_DelayEnds ==
    /\ em_pc = "delay"
    /\ em_pc' = "sending"
    /\ em_i' = em_i + 1
    /\ em_log' = Append(em_log, SendEv(em_i + 1))
    /\ UNCHANGED <<em_variant, em_config, em_sizes, em_chunks, em_error,
                   qvars, cvars, pvars, xvars>>

\* the object the call resolves with: "emailsSent: results.length,
\* totalAttachments: attachments.length"
EM_Result(sizes, log) ==
    [emailsSent |-> Cardinality({k \in 1..Len(log) : log[k].ev = "ok"}),
     totalAttachments |-> Len(sizes)]

\* ------------------------------------------------------------------------
\* Email pipelines that materialise temp files
\* ------------------------------------------------------------------------
MaxDl == 3

DlId == 1..MaxDl

\* the pipelines:
\*   "queueEmailForContact"  src/unnamed/part_000:144-261, the queued task
\*                           of services/backgroundEmail.js, a module that
\*                           imports neither config nor path
\*   "part_000"              the same task when the whole of part_000 is one
\*                           module: config is the import of its line 2,
\*                           path is still unbound
\*   "services"              src/server.js:658-730
\*   "processWebhookData"    src/unnamed/part_007:439-507 (notification
\*                           email with the analysed document attached)
ClPipelines ==
    {"queueEmailForContact", "part_000", "services", "processWebhookData"}

FanOut(p) == p \in {"queueEmailForContact", "part_000", "services"}

\* the identifier config is bound where the task reads
\* "config.HUBSPOT_CONFIG.objectTypes.contact"
ConfigInScope(p) == p # "queueEmailForContact"

\* the identifier path is bound where the download callback evaluates
\* "path.extname(new URL(signedUrl).pathname)"
PathInScope(p) == p = "services"

\* the queued task only: "if (serviceIds.length === 0) throw", and
\* "if (attachments.length === 0) throw"
ThrowsWhenEmpty(p) == p \in {"queueEmailForContact", "part_000"}

\* utils.cleanupTempFiles(filePaths): unlink of every path; an unlink that
\* fails (the paths of stuck) is caught and logged, its file stays, and
\* Promise.allSettled resolves all the same
CleanupTempFiles(disk, paths, stuck) == disk \ (paths \ stuck)

\* cleanupFile(filePath): "try { if (fs.existsSync(filePath))
\* fs.unlinkSync(filePath) } catch { log }": a failing unlink leaves the
\* file and the caller is not told
CleanupFile(disk, f, fails) ==
    IF f \in disk /\ ~fails THEN disk \ {f} ELSE disk

CInit ==
    /\ cl_pipeline \in ClPipelines
    /\ cl_pc = "begin"
    /\ cl_dl = [i \in DlId |-> "none"]
    /\ cl_disk = {}
    /\ cl_tempFiles = {}
    /\ cl_unlinked = {}

CIdle ==
    /\ cl_pipeline = "services"
    /\ cl_pc = "begin"
    /\ cl_dl = [i \in DlId |-> "none"]
    /\ cl_disk = {}
    /\ cl_tempFiles = {}
    /\ cl_unlinked = {}

\* the catch block of the fan-out pipelines:
\* "await utils.cleanupTempFiles(tempFiles); throw error"
CL_Catch ==
    /\ cl_pc' = "cleanup_throw"
    /\ UNCHANGED <<cl_dl, cl_disk, cl_tempFiles, cl_unlinked>>

\* the task of backgroundEmail.js starts: evaluating the arguments of the
\* first fetchHubSpotAssociatedData throws ReferenceError (config is not
\* defined) before any read is made; the catch block runs with no temp file
CL_ConfigUnbound ==
    /\ FanOut(cl_pipeline)
    /\ ~ConfigInScope(cl_pipeline)
    /\ cl_pc = "begin"
    /\ CL_Catch
    /\ UNCHANGED <<cl_pipeline, qvars, evars, pvars, xvars>>

\* the association and batch reads succeed and name n services with a file;
\* the downloads are started together (Promise.all over map)
CL_LookupOk(n) ==
    /\ FanOut(cl_pipeline)
    /\ ConfigInScope(cl_pipeline)
    /\ cl_pc = "begin"
    /\ IF n = 0
       THEN IF ThrowsWhenEmpty(cl_pipeline)
            THEN CL_Catch
            ELSE /\ cl_pc' = "send"
                 /\ UNCHANGED <<cl_dl, cl_disk, cl_tempFiles, cl_unlinked>>
       ELSE /\ cl_pc' = "downloads"
            /\ cl_dl' = [i \in DlId |-> IF i <= n THEN "pending" ELSE "none"]
            /\ UNCHANGED <<cl_disk, cl_tempFiles, cl_unlinked>>
    /\ UNCHANGED <<cl_pipeline, qvars, evars, pvars, xvars>>

\* one of the association or batch reads fails
CL_LookupFail ==
    /\ FanOut(cl_pipeline)
    /\ ConfigInScope(cl_pipeline)
    /\ cl_pc = "begin"
    /\ CL_Catch
    /\ UNCHANGED <<cl_pipeline, qvars, evars, pvars, xvars>>

\* what follows the settling of a download: Promise.all resolves with the
\* last one, attachments = processedFiles.filter(Boolean)
CL_AfterDownload(dl) ==
    IF \E i \in DlId : dl[i] = "pending"
    THEN "downloads"
    ELSE IF ThrowsWhenEmpty(cl_pipeline) /\ \A i \in DlId : dl[i] # "saved"
    THEN "cleanup_throw"
    ELSE "send"

\* getSignedFileUrl and downloadAndSaveFile succeed for file i: the file
\* is written and "tempFiles.push(tempPath)"; then the attachment object
\* is built, or, where path is unbound, building it throws ReferenceError
\* and the callback's catch returns null: the file counts for nothing
CL_DownloadOk(i) ==
    /\ FanOut(cl_pipeline)
    /\ cl_pc = "downloads"
    /\ cl_dl[i] = "pending"
    /\ cl_dl' = [cl_dl EXCEPT ![i] = IF PathInScope(cl_pipeline)
                                     THEN "saved" ELSE "dropped"]
    /\ cl_disk' = cl_disk \cup {i}
    /\ cl_tempFiles' = cl_tempFiles \cup {i}
    /\ cl_pc' = CL_AfterDownload(cl_dl')
    /\ UNCHANGED <<cl_pipeline, cl_unlinked, qvars, evars, pvars, xvars>>

\* getSignedFileUrl, the fetch or fsAsync.writeFile fails for file i:
\* caught, "return null".  A write that fails midway leaves a partial
\* file whose path never reaches tempFiles.
CL_DownloadFail(i, partial) ==
    /\ FanOut(cl_pipeline)
    /\ cl_pc = "downloads"
    /\ cl_dl[i] = "pending"
    /\ cl_dl' = [cl_dl EXCEPT ![i] = "failed"]
    /\ cl_disk' = IF partial THEN cl_disk \cup {i} ELSE cl_disk
    /\ cl_pc' = CL_AfterDownload(cl_dl')
    /\ UNCHANGED <<cl_pipeline, cl_tempFiles, cl_unlinked, qvars, evars,
                   pvars, xvars>>

\* "await emailService.sendEmailWithAttachments(...)" resolves
CL_SendOk ==
    /\ FanOut(cl_pipeline)
    /\ cl_pc = "send"
    /\ cl_pc' = "cleanup_return"
    /\ UNCHANGED <<cl_pipeline, cl_dl, cl_disk, cl_tempFiles, cl_unlinked,
                   qvars, evars, pvars, xvars>>

\* "await emailService.sendEmailWithAttachments(...)" rejects
CL_SendFail ==
    /\ FanOut(cl_pipeline)
    /\ cl_pc = "send"
    /\ CL_Catch
    /\ UNCHANGED <<cl_pipeline, qvars, evars, pvars, xvars>>

\* "await utils.cleanupTempFiles(tempFiles)" resolves, the unlink of the
\* paths of stuck having failed; then return or throw
CL_CleanupDone(stuck) ==
    /\ FanOut(cl_pipeline)
    /\ cl_pc \in {"cleanup_return", "cleanup_throw"}
    /\ stuck \subseteq cl_tempFiles
    /\ cl_disk' = CleanupTempFiles(cl_disk, cl_tempFiles, stuck)
    /\ cl_unlinked' = cl_unlinked \cup cl_tempFiles
    /\ cl_pc' = IF cl_pc = "cleanup_return" THEN "returned" ELSE "threw"
    /\ UNCHANGED <<cl_pipeline, cl_dl, cl_tempFiles, qvars, evars, pvars, xvars>>

\* processWebhookData (queued variant): everything up to the second
\* getSignedFileUrl succeeds (parse, resolve, analysis, CRM writes)
PW_AnalyzeOk ==
    /\ cl_pipeline = "processWebhookData"
    /\ cl_pc = "begin"
    /\ cl_pc' = "pw_download"
    /\ cl_dl' = [cl_dl EXCEPT ![1] = "pending"]
    /\ UNCHANGED <<cl_pipeline, cl_disk, cl_tempFiles, cl_unlinked, qvars,
                   evars, pvars, xvars>>

\* one of those steps throws: the catch block sends the error email
PW_AnalyzeFail ==
    /\ cl_pipeline = "processWebhookData"
    /\ cl_pc = "begin"
    /\ cl_pc' = "pw_errmail"
    /\ UNCHANGED <<cl_pipeline, cl_dl, cl_disk, cl_tempFiles, cl_unlinked,
                   qvars, evars, pvars, xvars>>

\* "await downloadFile(signedUrl, tempFilePath)" resolves: file written
PW_DownloadOk ==
    /\ cl_pipeline = "processWebhookData"
    /\ cl_pc = "pw_download"
    /\ cl_dl' = [cl_dl EXCEPT ![1] = "saved"]
    /\ cl_disk' = cl_disk \cup {1}
    /\ cl_pc' = "pw_send"
    /\ UNCHANGED <<cl_pipeline, cl_tempFiles, cl_unlinked, qvars, evars,
                   pvars, xvars>>

\* getSignedFileUrl or downloadFile rejects: axios failed (nothing
\* written) or fs.writeFileSync failed midway (a partial file is left);
\* the catch block sends the error email
PW_DownloadFail(partial) ==
    /\ cl_pipeline = "processWebhookData"
    /\ cl_pc = "pw_download"
    /\ cl_dl' = [cl_dl EXCEPT ![1] = "failed"]
    /\ cl_disk' = IF partial THEN cl_disk \cup {1} ELSE cl_disk
    /\ cl_pc' = "pw_errmail"
    /\ UNCHANGED <<cl_pipeline, cl_tempFiles, cl_unlinked, qvars, evars,
                   pvars, xvars>>

\* "await sendEmailWithAttachment(..., tempFilePath)" resolves;
\* "cleanupFile(tempFilePath)", whose unlink may fail; return
PW_SendOk(fails) ==
    /\ cl_pipeline = "processWebhookData"
    /\ cl_pc = "pw_send"
    /\ cl_disk' = CleanupFile(cl_disk, 1, fails)
    /\ cl_unlinked' = cl_unlinked \cup {1}
    /\ cl_pc' = "returned"
    /\ UNCHANGED <<cl_pipeline, cl_dl, cl_tempFiles, qvars, evars, pvars, xvars>>

\* "await sendEmailWithAttachment(..., tempFilePath)" rejects: the catch
\* block sends the error email; cleanupFile is not reached
PW_SendFail ==
    /\ cl_pipeline = "processWebhookData"
    /\ cl_pc = "pw_send"
    /\ cl_pc' = "pw_errmail"
    /\ UNCHANGED <<cl_pipeline, cl_dl, cl_disk, cl_tempFiles, cl_unlinked,
                   qvars, evars, pvars, xvars>>

\* the error email settles (its own failure is swallowed); "throw error"
PW_ErrorMailDone ==
    /\ cl_pipeline = "processWebhookData"
    /\ cl_pc = "pw_errmail"
    /\ cl_pc' = "threw"
    /\ UNCHANGED <<cl_pipeline, cl_dl, cl_disk, cl_tempFiles, cl_unlinked,
                   qvars, evars, pvars, xvars>>

\* ------------------------------------------------------------------------
\* analyzePDF
\* ------------------------------------------------------------------------
MaxCalls == 2

CallId == 1..MaxCalls

\* "analysis_js": src/unnamed/part_001:32-58; "queued_server":
\* src/unnamed/part_007:299-339.  Both have the same awaits and the same
\* finally block; the temp path of an invocation is its own
\* (generateTempPath draws it from the clock and Math.random).
PdVariants == {"analysis_js", "queued_server"}

PD_NoCall == [variant |-> "none", pc |-> "idle", wrote |-> FALSE,
              unlinkFailed |-> FALSE]

\* the finally block, reached on return (threw = FALSE) and on throw:
\* "cleanupFile(tempPath)", whose unlink may fail
PD_Finally_SuccessOnlyMut(disk, c, threw, fails) ==
    IF threw THEN disk ELSE CleanupFile(disk, c, fails)

PD_Finally(disk, c, threw, fails) == CleanupFile(disk, c, fails)

PInit ==
    /\ pd_calls = [c \in CallId |-> PD_NoCall]
    /\ pd_disk = {}

\* analyzePDF(url) is called: generateTempPath, then "await downloadFile"
PD_Invoke(c, v) ==
    /\ pd_calls[c].pc = "idle"
    /\ \A d \in CallId : d < c => pd_calls[d].pc # "idle"
    /\ pd_calls' = [pd_calls EXCEPT ![c] = [variant |-> v, pc |-> "download",
                                            wrote |-> FALSE,
                                            unlinkFailed |-> FALSE]]
    /\ UNCHANGED <<pd_disk, qvars, evars, cvars, xvars>>

\* downloadFile resolves: the file is written; "await client.files.create"
PD_DownloadOk(c) ==
    /\ pd_calls[c].pc = "download"
    /\ pd_disk' = pd_disk \cup {c}
    /\ pd_calls' = [pd_calls EXCEPT ![c].pc = "upload", ![c].wrote = TRUE]
    /\ UNCHANGED <<qvars, evars, cvars, xvars>>

\* downloadFile rejects: axios failed (nothing written) or writeFileSync
\* failed (a partial file may be left); finally
PD_DownloadFail(c, partial, fails) ==
    /\ pd_calls[c].pc = "download"
    /\ pd_disk' = PD_Finally(IF partial THEN pd_disk \cup {c} ELSE pd_disk,
                             c, TRUE, fails)
    /\ pd_calls' = [pd_calls EXCEPT ![c].pc = "threw", ![c].wrote = partial,
                                    ![c].unlinkFailed = partial /\ fails]
    /\ UNCHANGED <<qvars, evars, cvars, xvars>>

\* client.files.create resolves; "await client.chat.completions.create"
PD_UploadOk(c) ==
    /\ pd_calls[c].pc = "upload"
    /\ pd_calls' = [pd_calls EXCEPT ![c].pc = "model"]
    /\ UNCHANGED <<pd_disk, qvars, evars, cvars, xvars>>

\* client.files.create rejects; finally
PD_UploadFail(c, fails) ==
    /\ pd_calls[c].pc = "upload"
    /\ pd_disk' = PD_Finally(pd_disk, c, TRUE, fails)
    /\ pd_calls' = [pd_calls EXCEPT ![c].pc = "threw",
                                    ![c].unlinkFailed = fails]
    /\ UNCHANGED <<qvars, evars, cvars, xvars>>

\* the model replies; JSON.parse(cleanJSONResponse(...)) returns the record
\* (parses) or throws; finally
PD_ModelReplies(c, parses, fails) ==
    /\ pd_calls[c].pc = "model"
    /\ pd_disk' = PD_Finally(pd_disk, c, ~parses, fails)
    /\ pd_calls' = [pd_calls EXCEPT
                       ![c].pc = IF parses THEN "returned" ELSE "threw",
                       ![c].unlinkFailed = fails]
    /\ UNCHANGED <<qvars, evars, cvars, xvars>>

\* client.chat.completions.create rejects; finally
PD_ModelFails(c, fails) ==
    /\ pd_calls[c].pc = "model"
    /\ pd_disk' = PD_Finally(pd_disk, c, TRUE, fails)
    /\ pd_calls' = [pd_calls EXCEPT ![c].pc = "threw",
                                    ![c].unlinkFailed = fails]
    /\ UNCHANGED <<qvars, evars, cvars, xvars>>

\* ------------------------------------------------------------------------
\* parseFileRecordString (utils/helpers.js and the queued server's copy)
\* A string is the sequence of its characters.
\* ------------------------------------------------------------------------
MaxStr == 6

\* the strings of at most MaxStr characters over a letter, the comma and
\* the blank
Strings == UNION {[1..n -> {"a", ",", " "}] : n \in 0..MaxStr}

\* String.prototype.split(','): the pieces between the commas, empty
\* pieces included; a string without comma is its own single piece
RECURSIVE Split(_)
Split(str) ==
    IF \A i \in 1..Len(str) : str[i] # ","
    THEN <<str>>
    ELSE LET i == CHOOSE k \in 1..Len(str) :
                      /\ str[k] = ","
                      /\ \A m \in 1..(k - 1) : str[m] # ","
         IN  <<SubSeq(str, 1, i - 1)>> \o Split(SubSeq(str, i + 1, Len(str)))

\* String.prototype.trim()
RECURSIVE Trim(_)
Trim(str) ==
    IF str = <<>> THEN <<>>
    ELSE IF Head(str) = " " THEN Trim(Tail(str))
    ELSE IF str[Len(str)] = " " THEN Trim(SubSeq(str, 1, Len(str) - 1))
    ELSE str

\* "parts.map(part => part.trim())"
TrimmedParts_NoTrimMut(parts) == parts

TrimmedParts(parts) == [i \in 1..Len(parts) |-> Trim(parts[i])]

\* the catch block of utils/helpers.js: whatever the try block threw is
\* replaced by "new Error(`Invalid file record format: ${error.message}`)"
\* (the queued server's copy has no catch: its Error carries msg alone)
ParseError(msg) ==
    [ok |-> FALSE, error |-> "Invalid file record format: " \o msg,
     fileId |-> <<>>, objectTypeId |-> <<>>, recordId |-> <<>>]

\* The result of the call: the triple, or the Error it throws.  The two
\* versions agree on which strings are rejected; the steps of the queued
\* server use that verdict only.
parseFileRecordString(inputString) ==
    LET parts == Split(inputString)
    IN  IF Len(parts) # 3
        THEN ParseError("Invalid input format")
        ELSE LET t == TrimmedParts(parts)
             IN  IF t[1] = <<>> \/ t[2] = <<>> \/ t[3] = <<>>
                 THEN ParseError("All parts must be non-empty")
                 ELSE [ok |-> TRUE, error |-> NoError, fileId |-> t[1],
                       objectTypeId |-> t[2], recordId |-> t[3]]
\* ------------------------------------------------------------------------
\* The webhook route and processWebhookData, one inbound call:
\*   "direct_v1"  src/server.js:418-466, services.processWebhookData 44-76
\*                (src/unnamed/part_009:407-453 is the same route, with
\*                fetchContactServiceDetails called in place of the API)
\*   "direct_v2"  src/server.js:740-804, services.processWebhookData 624-656
\*   "queued"     src/unnamed/part_007:535-569, the job body at 439-507
\* ------------------------------------------------------------------------
WhVariants == {"direct_v1", "direct_v2", "queued"}

\* updateIndividualProperties(.., extractedData) with extractedData null:
\* "extractedData.firstName" is a TypeError in the queued server's version
\* ("queued_server"), "extractedData?.firstName" is undefined in the
\* other ("hubspot_js")
ThrowsOnNull(version, isNull) == version = "queued_server" /\ isNull

\* config.HUBSPOT_CONFIG.properties.webhookProperty
webhookProperty == "test_webhook"

\* an event without propertyValue
Absent == <<"undefined">>

NoEvent == [propertyName |-> "", subscriptionType |-> "",
            propertyValue |-> Absent]

\* req.body: a JSON object, an empty array, or an array of events of which
\* only the first is read
Bodies ==
    {[kind |-> k, event |-> NoEvent] : k \in {"object", "empty"}} \cup
    {[kind |-> "events",
      event |-> [propertyName |-> n, subscriptionType |-> t,
                 propertyValue |-> v]] :
         n \in {webhookProperty, "file_record"},
         t \in {"deal.propertyChange", "contact.propertyChange"},
         v \in Strings \cup {Absent}}

\* "!Array.isArray(webhookData) || webhookData.length === 0"
InvalidWebhook(body) == body.kind # "events"

\* "webhookData[0].propertyName == ...webhookProperty &&
\*  webhookData[0].subscriptionType == 'deal.propertyChange'"
IsEmailTrigger_NameOnlyMut(event) == event.propertyName = webhookProperty

IsEmailTrigger(event) ==
    /\ event.propertyName = webhookProperty
    /\ event.subscriptionType = "deal.propertyChange"

\* truthiness of event.propertyValue: undefined and '' are falsy
HasPropertyValue(event) ==
    event.propertyValue # Absent /\ event.propertyValue # <<>>

\* utils.getFileType(documentUrl)
FileTypes == {"image", "pdf", "unknown"}

Call(op, ok) == [op |-> op, ok |-> ok]

WH_Set(pc, path, res, calls, result, attempts, job, unhandled) ==
    /\ wh_pc' = pc
    /\ wh_path' = path
    /\ wh_res' = res
    /\ wh_calls' = calls
    /\ wh_result' = result
    /\ wh_attempts' = attempts
    /\ wh_job' = job
    /\ wh_unhandled' = unhandled

\* processWebhookData of a direct server has ended (returned "ignored",
\* "soft" or "success", or "threw") and the route goes on to its end.
\* direct_v2 answers now: 200 with the result, 204 when the result says
\* shouldReturn204 and 204 from its catch.  direct_v1 has answered 200
\* before the call; its catch calls res.status(500).json on the answered
\* response, which throws out of the handler.
WH_DirectEnd(outcome, path, res, calls) ==
    WH_Set("done", path,
           IF wh_variant = "direct_v2"
           THEN Append(res, IF outcome = "success" THEN 200 ELSE 204)
           ELSE IF outcome = "threw" THEN Append(res, 500)
           ELSE res,
           calls, outcome, wh_attempts, wh_job,
           wh_unhandled \/ (wh_variant = "direct_v1" /\ outcome = "threw"
                             /\ res # <<>>))

\* an Error is thrown inside processWebhookData: the queued job body goes
\* to its catch block and awaits the error email
WH_Throw(calls) ==
    IF wh_variant = "queued"
    THEN WH_Set("errorEmail", wh_path, wh_res, calls, wh_result,
                wh_attempts, wh_job, wh_unhandled)
    ELSE WH_DirectEnd("threw", wh_path, wh_res, calls)

\* the catch of a direct route for an error of the email branch
WH_RouteCatch(calls) ==
    WH_Set("done", wh_path,
           Append(wh_res, IF wh_variant = "direct_v2" THEN 204 ELSE 500),
           calls, wh_result, wh_attempts, wh_job,
           wh_unhandled \/ (wh_variant = "direct_v1" /\ wh_res # <<>>))

\* processWebhookData of the queued server up to its first await
PWQ_FirstAwait(event) ==
    IF ~HasPropertyValue(event) THEN "errorEmail"
    ELSE IF ~parseFileRecordString(event.propertyValue).ok THEN "errorEmail"
    ELSE "signedUrl"

WInit ==
    /\ wh_variant \in WhVariants
    /\ wh_body \in Bodies
    /\ wh_pc = "received"
    /\ wh_path = "none"
    /\ wh_res = <<>>
    /\ wh_calls = <<>>
    /\ wh_result = "none"
    /\ wh_attempts = 0
    /\ wh_job = "none"
    /\ wh_unhandled = FALSE
    /\ wh_fileType = "none"
    /\ wh_returned = "none"
    /\ wh_nullData = FALSE

\* no inbound call
WIdle ==
    /\ wh_variant = "direct_v2"
    /\ wh_body = [kind |-> "empty", event |-> NoEvent]
    /\ wh_pc = "idle"
    /\ wh_path = "none"
    /\ wh_res = <<>>
    /\ wh_calls = <<>>
    /\ wh_result = "none"
    /\ wh_attempts = 0
    /\ wh_job = "none"
    /\ wh_unhandled = FALSE
    /\ wh_fileType = "none"
    /\ wh_returned = "none"
    /\ wh_nullData = FALSE

\* what a step of the inbound call leaves alone
wframe == <<wh_variant, wh_body, qvars, evars, cvars, pvars, h_clearLog,
            fvars, tvars>>

\* the same, for the steps that neither classify the document nor return
\* the success result
wframeT == <<wframe, wh_fileType, wh_returned, wh_nullData>>

\* services.processWebhookData of a direct server up to its first await:
\* it returns the no-propertyValue result, throws the parse error, or
\* calls getSignedFileUrl
PWD_FirstAwait(event) ==
    IF ~HasPropertyValue(event) THEN "ignored"
    ELSE IF ~parseFileRecordString(event.propertyValue).ok THEN "threw"
    ELSE "signedUrl"

\* "await services.processWebhookData(webhookData)" of a direct route,
\* res being what the route has answered before the call
WH_DirectAnalyze(res) ==
    LET first == PWD_FirstAwait(wh_body.event)
    IN  IF first = "ignored"
        THEN WH_DirectEnd("ignored", "Ignored", res, wh_calls)
        ELSE IF first = "threw"
        THEN WH_DirectEnd("threw", "AnalyzePath", res, wh_calls)
        ELSE WH_Set("signedUrl", "AnalyzePath", res, wh_calls, wh_result,
                    wh_attempts, wh_job, wh_unhandled)

\* first route of server.js: webhookData[0].propertyName of a body without
\* first event is a TypeError, caught and answered with 500; every event
\* is answered with 200 before any work
WH_ReceiveV1 ==
    /\ wh_variant = "direct_v1"
    /\ wh_pc = "received"
    /\ IF InvalidWebhook(wh_body)
       THEN WH_Set("done", "none", <<500>>, wh_calls, wh_result,
                   wh_attempts, wh_job, wh_unhandled)
       ELSE IF IsEmailTrigger(wh_body.event)
       THEN WH_Set("assoc", "EmailPath", <<200>>, wh_calls, wh_result,
                   wh_attempts, wh_job, wh_unhandled)
       ELSE WH_DirectAnalyze(<<200>>)
    /\ UNCHANGED wframeT

\* second route of server.js
WH_ReceiveV2 ==
    /\ wh_variant = "direct_v2"
    /\ wh_pc = "received"
    /\ IF InvalidWebhook(wh_body)
       THEN WH_Set("done", "none", <<204>>, wh_calls, wh_result,
                   wh_attempts, wh_job, wh_unhandled)
       ELSE IF IsEmailTrigger(wh_body.event)
       THEN WH_Set("assoc", "EmailPath", <<>>, wh_calls, wh_result,
                   wh_attempts, wh_job, wh_unhandled)
       ELSE WH_DirectAnalyze(<<>>)
    /\ UNCHANGED wframeT

\* route of the queued server: jobQueue.add() starts the idle worker, which
\* marks the job processing, counts the attempt and calls
\* processWebhookData; the route resumes in the same turn of the event
\* loop and answers 202
WH_ReceiveQueued ==
    /\ wh_variant = "queued"
    /\ wh_pc = "received"
    /\ IF InvalidWebhook(wh_body)
       THEN WH_Set("done", "none", <<400>>, wh_calls, wh_result,
                   wh_attempts, wh_job, wh_unhandled)
       ELSE WH_Set(PWQ_FirstAwait(wh_body.event), "AnalyzePath", <<202>>,
                   wh_calls, wh_result, 1, "processing", wh_unhandled)
    /\ UNCHANGED wframeT

\* "await hubspot.fetchHubSpotAssociatedData(deal, objectId, contact, 1)"
\* resolves with n associated contacts
WH_AssocOk(n) ==
    /\ wh_pc = "assoc"
    /\ LET calls == Append(wh_calls, Call("assoc", TRUE))
       IN  IF wh_variant = "direct_v2"
           THEN IF n = 0
                THEN WH_Set("done", wh_path, Append(wh_res, 204), calls,
                            wh_result, wh_attempts, wh_job, wh_unhandled)
                ELSE WH_Set("background", wh_path, Append(wh_res, 200),
                            calls, wh_result, wh_attempts, wh_job,
                            wh_unhandled)
           ELSE WH_Set(IF n = 0 THEN "done" ELSE "internal", wh_path,
                       wh_res, calls, wh_result, wh_attempts, wh_job,
                       wh_unhandled)
    /\ UNCHANGED wframeT

WH_AssocFail ==
    /\ wh_pc = "assoc"
    /\ WH_RouteCatch(Append(wh_calls, Call("assoc", FALSE)))
    /\ UNCHANGED wframeT

\* the internal send-email call ends.  direct_v1 awaits it inside the
\* handler.  direct_v2 has returned; its .then callback reads the unbound
\* name "error", so the .catch callback runs after success as well, and
\* calls hubspot.updateErrorLog without awaiting it.
WH_InternalEnds(ok) ==
    /\ wh_pc \in {"internal", "background"}
    /\ LET calls == Append(wh_calls, Call("internal", ok))
       IN  IF wh_pc = "background"
           THEN WH_Set("bgErrorLog", wh_path, wh_res, calls, wh_result,
                       wh_attempts, wh_job, wh_unhandled)
           ELSE IF ok
           THEN WH_Set("done", wh_path, wh_res, calls, wh_result,
                       wh_attempts, wh_job, wh_unhandled)
           ELSE WH_RouteCatch(calls)
    /\ UNCHANGED wframeT

\* the floating updateErrorLog of direct_v2 settles
WH_BgErrorLogEnds(ok) ==
    /\ wh_pc = "bgErrorLog"
    /\ WH_Set("done", wh_path, wh_res,
              Append(wh_calls, Call("errorLog", ok)), wh_result,
              wh_attempts, wh_job, wh_unhandled \/ ~ok)
    /\ UNCHANGED wframeT

\* where processWebhookData goes when getSignedFileUrl has settled and,
\* if it resolved, getFileType has classified the URL:
\* "if (fileType === 'unknown') throw", else the analysis is called
AfterClassify_ExtractUnknownMut(ok, fileType) ==
    IF ~ok THEN "throw" ELSE "extract"

AfterClassify(ok, fileType) ==
    IF ~ok \/ fileType = "unknown" THEN "throw" ELSE "extract"

\* "await getSignedFileUrl(fileId)" settles; getFileType of the URL
WH_SignedUrlEnds(ok, fileType) ==
    /\ wh_pc = "signedUrl"
    /\ LET calls == Append(wh_calls, Call("signedUrl", ok))
       IN  IF AfterClassify(ok, fileType) = "throw"
           THEN WH_Throw(calls)
           ELSE WH_Set("extract", wh_path, wh_res, calls, wh_result,
                       wh_attempts, wh_job, wh_unhandled)
    /\ wh_fileType' = IF ok THEN fileType ELSE wh_fileType
    /\ UNCHANGED <<wframe, wh_returned, wh_nullData>>

\* where processWebhookData goes when analyzeImage / analyzePDF settles:
\* on to the extracted-data write, or, on a failure, into the catch of the
\* direct servers, which calls updateErrorLog; the queued job body has no
\* catch of its own around the analysis
AfterExtract(ok, variant) ==
    IF ok THEN "saveData"
    ELSE IF variant = "queued" THEN "throw"
    ELSE "errorLog"

\* "await analyzeImage / analyzePDF" settles.  When it resolves, it does
\* so with JSON.parse of the reply, unchecked: a record, or null for the
\* reply "null" (isNull)
WH_ExtractEnds(ok, isNull) ==
    /\ wh_pc = "extract"
    /\ ~ok => ~isNull
    /\ LET calls == Append(wh_calls, Call("extract", ok))
           next == AfterExtract(ok, wh_variant)
       IN  IF next = "throw"
           THEN WH_Throw(calls)
           ELSE WH_Set(next, wh_path, wh_res, calls, wh_result,
                       wh_attempts, wh_job, wh_unhandled)
    /\ wh_nullData' = IF ok THEN isNull ELSE wh_nullData
    /\ UNCHANGED <<wframe, wh_fileType, wh_returned>>

\* updateErrorLog: "await updateProperty(.., errorLog, errorData)" with
\* nothing around it, so a rejected write rejects updateErrorLog and, with
\* it, the catch block that awaits it
UpdateErrorLogOutcome(writeOk) == IF writeOk THEN "soft" ELSE "threw"

\* "await hubspot.updateErrorLog(..)" in the catch of processWebhookData
WH_ErrorLogEnds(ok) ==
    /\ wh_pc = "errorLog"
    /\ WH_DirectEnd(UpdateErrorLogOutcome(ok), wh_path, wh_res,
                    Append(wh_calls, Call("errorLog", ok)))
    /\ UNCHANGED wframeT

\* "await updateProperty(.., extractedData, extractedData)" settles.  The
\* queued job body calls updateIndividualProperties next, which rejects at
\* once when extractedData is null: the job body's catch runs
WH_SaveDataEnds(ok) ==
    /\ wh_pc = "saveData"
    /\ LET calls == Append(wh_calls, Call("extractedData", ok))
       IN  IF ok /\ wh_variant # "queued"
           THEN WH_Set("saveFileId", wh_path, wh_res, calls, wh_result,
                       wh_attempts, wh_job, wh_unhandled)
           ELSE IF ok /\ ~ThrowsOnNull("queued_server", wh_nullData)
           THEN WH_Set("fields", wh_path, wh_res, calls, wh_result,
                       wh_attempts, wh_job, wh_unhandled)
           ELSE WH_Throw(calls)
    /\ UNCHANGED wframeT

\* "await hubspot.updateProperty(.., fileId, fileId)" settles
WH_SaveFileIdEnds(ok) ==
    /\ wh_pc = "saveFileId"
    /\ LET calls == Append(wh_calls, Call("fileId", ok))
       IN  IF ok
           THEN WH_Set("fields", wh_path, wh_res, calls, wh_result,
                       wh_attempts, wh_job, wh_unhandled)
           ELSE WH_Throw(calls)
    /\ UNCHANGED wframeT

\* "await updateIndividualProperties(..)" returns its report (the direct
\* servers' version reads the fields of a null extractedData as undefined
\* and returns an empty report; the queued one got a record)
WH_FieldsDone ==
    /\ wh_pc = "fields"
    /\ LET calls == Append(wh_calls, Call("fields", TRUE))
       IN  IF wh_variant = "queued"
           THEN WH_Set("notify", wh_path, wh_res, calls, wh_result,
                       wh_attempts, wh_job, wh_unhandled)
           ELSE WH_DirectEnd("success", wh_path, wh_res, calls)
    \* "return { success: true, .., fileType }" of the direct servers
    /\ wh_returned' = IF wh_variant = "queued" THEN wh_returned
                      ELSE wh_fileType
    /\ UNCHANGED <<wframe, wh_fileType, wh_nullData>>

\* queued job body: second signed URL, download and the email carrying
\* the document (their steps are PW_DownloadOk .. PW_SendFail); on success
\* the worker marks the job completed
WH_NotifyEnds(ok) ==
    /\ wh_pc = "notify"
    /\ LET calls == Append(wh_calls, Call("email", ok))
       IN  IF ok
           THEN WH_Set("done", wh_path, wh_res, calls, "success",
                       wh_attempts, "completed", wh_unhandled)
           ELSE WH_Throw(calls)
    \* "return { success: true, .., fileType, individualUpdates }"
    /\ wh_returned' = IF ok THEN wh_fileType ELSE wh_returned
    /\ UNCHANGED <<wframe, wh_fileType, wh_nullData>>

\* catch of the queued job body: the error email settles (its own failure
\* is logged only), the error is rethrown, and the worker either fails the
\* job for good or keeps it for another attempt
WH_ErrorEmailEnds(ok) ==
    /\ wh_pc = "errorEmail"
    /\ LET calls == Append(wh_calls, Call("errorEmail", ok))
       IN  IF SQ_Exhausted(wh_attempts)
           THEN WH_Set("done", wh_path, wh_res, calls, "threw",
                       wh_attempts, "failed", wh_unhandled)
           ELSE WH_Set("retryDelay", wh_path, wh_res, calls, "threw",
                       wh_attempts, wh_job, wh_unhandled)
    /\ UNCHANGED wframeT

\* the worker's delay ends and it executes the job again
WH_RetryDelayEnds ==
    /\ wh_pc = "retryDelay"
    /\ WH_Set(PWQ_FirstAwait(wh_body.event), wh_path, wh_res, wh_calls,
              wh_result, wh_attempts + 1, wh_job, wh_unhandled)
    /\ UNCHANGED wframeT

WNext ==
    \/ WH_ReceiveV1
    \/ WH_ReceiveV2
    \/ WH_ReceiveQueued
    \/ \E n \in 0..1 : WH_AssocOk(n)
    \/ WH_AssocFail
    \/ \E ok \in BOOLEAN : WH_InternalEnds(ok)
    \/ \E ok \in BOOLEAN : WH_BgErrorLogEnds(ok)
    \/ \E ok \in BOOLEAN, fileType \in FileTypes :
           WH_SignedUrlEnds(ok, fileType)
    \/ \E ok, isNull \in BOOLEAN : WH_ExtractEnds(ok, isNull)
    \/ \E ok \in BOOLEAN : WH_ErrorLogEnds(ok)
    \/ \E ok \in BOOLEAN : WH_SaveDataEnds(ok)
    \/ \E ok \in BOOLEAN : WH_SaveFileIdEnds(ok)
    \/ WH_FieldsDone
    \/ \E ok \in BOOLEAN : WH_NotifyEnds(ok)
    \/ \E ok \in BOOLEAN : WH_ErrorEmailEnds(ok)
    \/ WH_RetryDelayEnds

\* ------------------------------------------------------------------------
\* updateIndividualProperties
\*   "hubspot_js"     src/unnamed/part_000:89-112  ("if (!propertyValue)")
\*   "queued_server"  src/unnamed/part_007:366-393 (null, undefined, '')
\* Field values are strings, null or undefined.
\* ------------------------------------------------------------------------
FlVariants == {"hubspot_js", "queued_server"}

Null == <<"null">>

FieldValues == {Absent, Null, <<>>, <<"x">>}

FieldNames == {"firstName", "lastName", "streetAddress", "dateOfBirth",
               "nationality", "workPermitDate", "workPermitType"}

\* Boolean(v) of a field value
Truthy(v) == v # Absent /\ v # Null /\ v # <<>>

\* "[firstName, lastName].filter(Boolean).join(' ')"
FullName(d) ==
    IF Truthy(d.firstName) /\ Truthy(d.lastName)
    THEN d.firstName \o <<" ">> \o d.lastName
    ELSE IF Truthy(d.firstName) THEN d.firstName
    ELSE IF Truthy(d.lastName) THEN d.lastName
    ELSE <<>>

\* Object.entries(propertiesToUpdate), in insertion order
PropertiesToUpdate(d) ==
    << [name |-> "extracted_full_name", value |-> FullName(d)],
       [name |-> "extracted_address", value |-> d.streetAddress],
       [name |-> "extracted_dob", value |-> d.dateOfBirth],
       [name |-> "extracted_nationality", value |-> d.nationality],
       [name |-> "extracted_work_permit_date", value |-> d.workPermitDate],
       [name |-> "extracted_work_permit_type", value |-> d.workPermitType] >>

\* the "continue" test of the loop
SkipsField(variant, v) ==
    IF variant = "hubspot_js" THEN ~Truthy(v)
    ELSE v = Null \/ v = Absent \/ v = <<>>

\* the catch inside the loop: push the failure entry and go on with the
\* next entry
AfterFailedWrite_AbortMut(i, n) == n + 1

AfterFailedWrite(i, n) == i + 1

\* the loop runs from entry i to its next updateProperty call: the index
\* of that entry, or Len + 1 when the loop ends
RECURSIVE NextField(_, _, _)
NextField(props, i, variant) ==
    IF i > Len(props) THEN i
    ELSE IF SkipsField(variant, props[i].value)
    THEN NextField(props, i + 1, variant)
    ELSE i

FL_Goto(props, i) ==
    LET k == NextField(props, i, fl_variant)
    IN  /\ fl_i' = k
        /\ fl_pc' = IF k > Len(props) THEN "returned" ELSE "writing"

fframe == <<fl_variant, fl_data, fl_null, qvars, evars, cvars, pvars,
            h_clearLog, wvars, tvars>>

FInit ==
    /\ fl_variant \in FlVariants
    /\ fl_data \in [FieldNames -> FieldValues]
    /\ fl_null \in BOOLEAN
    /\ fl_null => fl_data = [f \in FieldNames |-> Absent]
    /\ fl_pc = "start"
    /\ fl_i = 0
    /\ fl_updates = <<>>
    /\ fl_writes = <<>>

\* not called
FIdle ==
    /\ fl_variant = "hubspot_js"
    /\ fl_data = [f \in FieldNames |-> Null]
    /\ fl_null = FALSE
    /\ fl_pc = "idle"
    /\ fl_i = 0
    /\ fl_updates = <<>>
    /\ fl_writes = <<>>

\* the call up to its first await, or to the TypeError of its first line
FL_Start ==
    /\ fl_pc = "start"
    /\ IF ThrowsOnNull(fl_variant, fl_null)
       THEN fl_pc' = "threw" /\ fl_i' = fl_i
       ELSE FL_Goto(PropertiesToUpdate(fl_data), 1)
    /\ UNCHANGED <<fl_updates, fl_writes, fframe>>

\* "await updateProperty(..)" resolves: success entry, then the 100 ms wait
FL_WriteOk ==
    /\ fl_pc = "writing"
    /\ LET p == PropertiesToUpdate(fl_data)[fl_i]
       IN  /\ fl_writes' = Append(fl_writes, [property |-> p.name,
                                              ok |-> TRUE])
           /\ fl_updates' = Append(fl_updates,
                  [property |-> p.name, success |-> TRUE,
                   error |-> NoError])
    /\ fl_pc' = "delay"
    /\ UNCHANGED <<fl_i, fframe>>

\* "await updateProperty(..)" rejects with Error(msg)
FL_WriteFail(msg) ==
    /\ fl_pc = "writing"
    /\ LET props == PropertiesToUpdate(fl_data)
           p == props[fl_i]
       IN  /\ fl_writes' = Append(fl_writes, [property |-> p.name,
                                              ok |-> FALSE])
           /\ fl_updates' = Append(fl_updates,
                  [property |-> p.name, success |-> FALSE, error |-> msg])
           /\ FL_Goto(props, AfterFailedWrite(fl_i, Len(props)))
    /\ UNCHANGED fframe

\* the 100 ms wait ends
FL_DelayEnds ==
    /\ fl_pc = "delay"
    /\ FL_Goto(PropertiesToUpdate(fl_data), fl_i + 1)
    /\ UNCHANGED <<fl_updates, fl_writes, fframe>>

FNext ==
    \/ FL_Start
    \/ FL_WriteOk
    \/ \E msg \in {"HubSpot update failed: 500"} : FL_WriteFail(msg)
    \/ FL_DelayEnds

\* ------------------------------------------------------------------------
\* Temp file paths of operations that run side by side (parallel
\* downloads of one email run, concurrent requests, queued tasks)
\* ------------------------------------------------------------------------
MaxOps == 2

MaxClock == 1

OpId == 1..MaxOps

\* the operations, by how they name and release their temp file:
\*   "fixedPath"            analyzePDF of src/unnamed/part_011:85-126:
\*                          "./temp.pdf", unlinked after the model reply,
\*                          no try around anything
\*   "downloadAndSaveFile"  a download of an email run (src/utils/
\*                          helpers.js:9-30 called at part_000:196-199 and
\*                          server.js:691-694): the path enters tempFiles
\*                          once written; cleanupTempFiles(tempFiles) runs
\*                          after the send and in the catch
\*   "generateTempPath"     analyzePDF of part_001:32-58 and
\*                          part_007:299-339: generateTempPath, and
\*                          cleanupFile in a finally block
\*   "tempFilePath"         the document mail of part_007:468-481:
\*                          generateTempPath, and cleanupFile after a
\*                          successful send only
TpKinds == {"fixedPath", "downloadAndSaveFile", "generateTempPath",
            "tempFilePath"}

\* the positions at which the operation's own cleanup can run
Cleans(kind, pc) ==
    CASE kind = "fixedPath" -> pc = "read"
      [] kind = "downloadAndSaveFile" -> pc \in {"written", "read"}
      [] kind = "generateTempPath" -> pc \in {"download", "written", "read"}
      [] kind = "tempFilePath" -> pc = "read"
      [] OTHER -> FALSE

\* the positions at which a failure ends the operation with no cleanup
Abandons(kind, pc) ==
    CASE kind = "fixedPath" -> pc \in {"download", "written", "read"}
      [] kind = "downloadAndSaveFile" -> pc \in {"download", "writing"}
      [] kind = "generateTempPath" -> FALSE
      [] kind = "tempFilePath" -> pc \in {"download", "written", "read"}
      [] OTHER -> FALSE

\* the position at which the operation's write is made
WritesAt(kind) ==
    IF kind = "downloadAndSaveFile" THEN "writing" ELSE "download"

\* "if (fs.existsSync(path)) fs.unlinkSync(path)", against the bare unlink
\* of cleanupTempFiles
ChecksExists(kind) == kind # "downloadAndSaveFile"

FileExts == {".pdf", ".jpg"}

\* The path.  "./temp.pdf"; "hubspot_file_${fileId}_${Date.now()}${ext}",
\* ext being the extension of the signed URL's path name;
\* "/tmp/file_${Date.now()}_${Math.random()...}${extension}", whose random
\* part is taken to differ from call to call and is the operation's number
\* here.
TempPathOf(kind, o, fileId, now, ext) ==
    CASE kind = "fixedPath" ->
             [base |-> "./temp", fileId |-> "", now |-> 0, rand |-> 0,
              ext |-> ".pdf"]
      [] kind = "downloadAndSaveFile" ->
             [base |-> "temp/hubspot_file", fileId |-> fileId, now |-> now,
              rand |-> 0, ext |-> ext]
      [] kind \in {"generateTempPath", "tempFilePath"} ->
             [base |-> "/tmp/file", fileId |-> "", now |-> now, rand |-> o,
              ext |-> ext]

\* no path yet
TP_NoPath == [base |-> "", fileId |-> "", now |-> 0, rand |-> 0, ext |-> ""]

TP_NoOp == [kind |-> "none", fileId |-> "none", ext |-> "", pc |-> "idle",
            path |-> TP_NoPath]

TInit ==
    /\ tp_ops = [o \in OpId |-> TP_NoOp]
    /\ tp_now = 0
    /\ tp_disk = {}
    /\ tp_log = <<>>

tframe == <<qvars, evars, cvars, pvars, h_clearLog, wvars, fvars>>

\* an operation is called for the file fileId, whose URL (or whose caller)
\* gives the extension ext.  analyzePDF and the document mail fix the path
\* before the download is awaited; downloadAndSaveFile fixes it when the
\* download has arrived.
TP_Start(o, kind, fileId, ext) ==
    /\ tp_ops[o].pc = "idle"
    /\ \A d \in OpId : d < o => tp_ops[d].pc # "idle"
    /\ kind \in {"fixedPath", "generateTempPath"} => ext = ".pdf"
    /\ tp_ops' = [tp_ops EXCEPT ![o] =
                      [kind |-> kind, fileId |-> fileId, ext |-> ext,
                       pc |-> "download",
                       path |-> IF kind = "downloadAndSaveFile" THEN TP_NoPath
                                ELSE TempPathOf(kind, o, fileId, tp_now,
                                                ext)]]
    /\ UNCHANGED <<tp_now, tp_disk, tp_log, tframe>>

\* a millisecond passes
TP_Tick ==
    /\ tp_now < MaxClock
    /\ tp_now' = tp_now + 1
    /\ UNCHANGED <<tp_ops, tp_disk, tp_log, tframe>>

\* downloadAndSaveFile: "await response.arrayBuffer()" resolves; the path
\* is made from Date.now() and "await fsAsync.writeFile" begins
TP_NamePath(o) ==
    /\ tp_ops[o].kind = "downloadAndSaveFile"
    /\ tp_ops[o].pc = "download"
    /\ tp_ops' = [tp_ops EXCEPT
                     ![o].pc = "writing",
                     ![o].path = TempPathOf(tp_ops[o].kind, o,
                                            tp_ops[o].fileId, tp_now,
                                            tp_ops[o].ext)]
    /\ UNCHANGED <<tp_now, tp_disk, tp_log, tframe>>

\* the disk and the log after the operation wrote its path, replacing
\* whatever the path held
Written(disk, log, o) ==
    [disk |-> {f \in disk : f.path # tp_ops[o].path}
                  \cup {[path |-> tp_ops[o].path, by |-> o]},
     log |-> Append(log, [op |-> o, acc |-> "write",
                          path |-> tp_ops[o].path])]

\* the file is written: fs.writeFileSync in the turn in which the download
\* arrives, or the completion of fsAsync.writeFile in a turn after the one
\* that named the path
TP_Write(o) ==
    /\ tp_ops[o].pc = WritesAt(tp_ops[o].kind)
    /\ tp_ops' = [tp_ops EXCEPT ![o].pc = "written"]
    /\ tp_disk' = Written(tp_disk, tp_log, o).disk
    /\ tp_log' = Written(tp_disk, tp_log, o).log
    /\ UNCHANGED <<tp_now, tframe>>

\* the operation reads its file: the stream of fs.createReadStream for
\* the upload, the attachment read by sendMail
TP_Read(o) ==
    /\ tp_ops[o].pc = "written"
    /\ tp_ops' = [tp_ops EXCEPT ![o].pc = "read"]
    /\ tp_log' = Append(tp_log, [op |-> o, acc |-> "read",
                                 path |-> tp_ops[o].path])
    /\ UNCHANGED <<tp_now, tp_disk, tframe>>

\* the operation's cleanup runs and the operation ends: after its last
\* step, or, where a finally or catch block holds the cleanup, after the
\* failure of the step it was waiting for (partial: that step was the
\* write, which failed midway and left a file).  cleanupFile and part_011
\* unlink only a path that exists; cleanupTempFiles unlinks whatever is in
\* tempFiles.  An unlink that fails leaves the file.
TP_Delete(o, partial, fails) ==
    /\ Cleans(tp_ops[o].kind, tp_ops[o].pc)
    /\ partial => tp_ops[o].pc = WritesAt(tp_ops[o].kind)
    /\ LET before == IF partial THEN Written(tp_disk, tp_log, o)
                     ELSE [disk |-> tp_disk, log |-> tp_log]
           unlinks == \/ ~ChecksExists(tp_ops[o].kind)
                      \/ \E f \in before.disk : f.path = tp_ops[o].path
       IN  /\ tp_disk' = IF unlinks /\ ~fails
                         THEN {f \in before.disk : f.path # tp_ops[o].path}
                         ELSE before.disk
           /\ tp_log' = IF unlinks
                        THEN Append(before.log,
                                    [op |-> o, acc |-> "delete",
                                     path |-> tp_ops[o].path])
                        ELSE before.log
    /\ tp_ops' = [tp_ops EXCEPT ![o].pc = "done"]
    /\ UNCHANGED <<tp_now, tframe>>

\* the step the operation was waiting for fails and nothing cleans up:
\* the exception leaves part_011's analyzePDF and the document mail's
\* try block; a download of an email run that fails returns null and its
\* path never enters tempFiles.  partial: the failed step was the write.
TP_Abandon(o, partial) ==
    /\ Abandons(tp_ops[o].kind, tp_ops[o].pc)
    /\ partial => tp_ops[o].pc = WritesAt(tp_ops[o].kind)
    /\ tp_ops' = [tp_ops EXCEPT ![o].pc = "done"]
    /\ tp_disk' = IF partial THEN Written(tp_disk, tp_log, o).disk
                  ELSE tp_disk
    /\ tp_log' = IF partial THEN Written(tp_disk, tp_log, o).log
                 ELSE tp_log
    /\ UNCHANGED <<tp_now, tframe>>

TNext ==
    \/ \E o \in OpId, kind \in TpKinds, fileId \in {"f1", "f2"},
          ext \in FileExts :
           TP_Start(o, kind, fileId, ext)
    \/ TP_Tick
    \/ \E o \in OpId : TP_NamePath(o)
    \/ \E o \in OpId : TP_Write(o)
    \/ \E o \in OpId : TP_Read(o)
    \/ \E o \in OpId, partial, fails \in BOOLEAN :
           TP_Delete(o, partial, fails)
    \/ \E o \in OpId, partial \in BOOLEAN : TP_Abandon(o, partial)

\* ------------------------------------------------------------------------
\* Specifications
\* ------------------------------------------------------------------------
QNext ==
    \/ SQ_Add
    \/ \E w \in LoopId : SQ_JobSucceeds(w)
    \/ \E w \in LoopId, msg \in ErrMsgs : SQ_JobFails(w, msg)
    \/ \E w \in LoopId : SQ_DelayEnds(w)
    \/ \E j \in JobId : SQ_Retry(j)
    \/ \E old \in SUBSET JobId : SQ_CleanupOldJobs(old)
    \/ MQ_Enqueue
    \/ \E w \in LoopId : MQ_TaskSucceeds(w)
    \/ \E w \in LoopId, msg \in ErrMsgs : MQ_TaskFails(w, msg)
    \/ MQ_Clear

ENext ==
    \/ EM_Chunk
    \/ EM_SendOk
    \/ \E msg \in ErrMsgs : EM_SendFail(msg)
    \/ EM_DelayEnds

CNext ==
    \/ CL_ConfigUnbound
    \/ \E n \in 0..MaxDl : CL_LookupOk(n)
    \/ CL_LookupFail
    \/ \E i \in DlId : CL_DownloadOk(i)
    \/ \E i \in DlId, partial \in BOOLEAN : CL_DownloadFail(i, partial)
    \/ CL_SendOk
    \/ CL_SendFail
    \/ \E stuck \in SUBSET DlId : CL_CleanupDone(stuck)
    \/ PW_AnalyzeOk
    \/ PW_AnalyzeFail
    \/ PW_DownloadOk
    \/ \E partial \in BOOLEAN : PW_DownloadFail(partial)
    \/ \E fails \in BOOLEAN : PW_SendOk(fails)
    \/ PW_SendFail
    \/ PW_ErrorMailDone

PNext ==
    \/ \E c \in CallId, v \in PdVariants : PD_Invoke(c, v)
    \/ \E c \in CallId : PD_DownloadOk(c)
    \/ \E c \in CallId, partial, fails \in BOOLEAN :
           PD_DownloadFail(c, partial, fails)
    \/ \E c \in CallId : PD_UploadOk(c)
    \/ \E c \in CallId, fails \in BOOLEAN : PD_UploadFail(c, fails)
    \/ \E c \in CallId, parses, fails \in BOOLEAN :
           PD_ModelReplies(c, parses, fails)
    \/ \E c \in CallId, fails \in BOOLEAN : PD_ModelFails(c, fails)

\* the task queues alone
Init ==
    QInit /\ EIdle /\ CIdle /\ PInit /\ WIdle /\ FIdle
    /\ TInit

Spec == Init /\ [][QNext]_vars

\* the task queues when every execution terminates, the timers fire and
\* clear() is not called
QNextLive ==
    \/ SQ_Add
    \/ \E w \in LoopId : SQ_JobSucceeds(w)
    \/ \E w \in LoopId, msg \in ErrMsgs : SQ_JobFails(w, msg)
    \/ \E w \in LoopId : SQ_DelayEnds(w)
    \/ \E j \in JobId : SQ_Retry(j)
    \/ \E old \in SUBSET JobId : SQ_CleanupOldJobs(old)
    \/ MQ_Enqueue
    \/ \E w \in LoopId : MQ_TaskSucceeds(w)
    \/ \E w \in LoopId, msg \in ErrMsgs : MQ_TaskFails(w, msg)

SQ_ExecutionEnds ==
    \E w \in LoopId :
        SQ_JobSucceeds(w) \/ \E msg \in ErrMsgs : SQ_JobFails(w, msg)

MQ_ExecutionEnds ==
    \E w \in LoopId :
        MQ_TaskSucceeds(w) \/ \E msg \in ErrMsgs : MQ_TaskFails(w, msg)

SpecLive ==
    /\ Init
    /\ [][QNextLive]_vars
    /\ WF_vars(SQ_ExecutionEnds)
    /\ WF_vars(\E w \in LoopId : SQ_DelayEnds(w))
    /\ WF_vars(MQ_ExecutionEnds)

\* one call of sendEmailWithAttachments
InitEmail ==
    QInit /\ impl = "simple" /\ EInit /\ CIdle /\ PInit /\ WIdle /\ FIdle
    /\ TInit

SpecEmail == InitEmail /\ [][ENext]_vars

\* one run of an email pipeline
InitCleanup ==
    QInit /\ impl = "simple" /\ EIdle /\ CInit /\ PInit /\ WIdle /\ FIdle
    /\ TInit

SpecCleanup == InitCleanup /\ [][CNext]_vars

\* concurrent invocations of analyzePDF
InitPdf ==
    QInit /\ impl = "simple" /\ EIdle /\ CIdle /\ PInit /\ WIdle /\ FIdle
    /\ TInit

SpecPdf == InitPdf /\ [][PNext]_vars

\* one inbound webhook call
InitWebhook ==
    QInit /\ impl = "simple" /\ EIdle /\ CIdle /\ PInit /\ WInit /\ FIdle
    /\ TInit

SpecWebhook == InitWebhook /\ [][WNext]_vars

\* one call of updateIndividualProperties
InitFields ==
    QInit /\ impl = "simple" /\ EIdle /\ CIdle /\ PInit /\ WIdle /\ FInit
    /\ TInit

SpecFields == InitFields /\ [][FNext]_vars

\* operations with temp files, side by side
InitTemp ==
    QInit /\ impl = "simple" /\ EIdle /\ CIdle /\ PInit /\ WIdle /\ FIdle
    /\ TInit

SpecTemp == InitTemp /\ [][TNext]_vars

\* ------------------------------------------------------------------------
\* Properties of the task queues
\* ------------------------------------------------------------------------
SQ_Pending(j) == sq_jobs[j].status \in {"queued", "processing"}

SQ_Terminal(j) == sq_jobs[j].status \in {"completed", "failed"}

MQ_Pending(j) == mq_items[j].status \in {"queued", "processing"}

MQ_Terminal(j) == mq_items[j].status \in {"completed", "failed"}

\* job j starts an execution in this step
Starts(j) == h_total'[j] > h_total[j]

\* a worker loop is started in this step
SQ_LoopStarts == \E w \in LoopId : sq_loops[w].pc = "idle"
                                   /\ sq_loops'[w].pc # "idle"

MQ_LoopStarts == \E w \in LoopId : mq_loops[w].pc = "idle"
                                   /\ mq_loops'[w].pc # "idle"

C1_State ==
    /\ Cardinality(ActiveLoops(sq_loops)) <= 1
    /\ Cardinality(ExecLoops(sq_loops)) <= 1
    /\ ActiveLoops(sq_loops) # {} => sq_processing
    /\ Cardinality(ActiveLoops(mq_loops)) <= 1
    /\ Cardinality(ExecLoops(mq_loops)) <= 1
    /\ ActiveLoops(mq_loops) # {} => mq_isProcessing
    /\ mq_processingCount = Cardinality(ExecLoops(mq_loops))
    /\ mq_processingCount <= maxConcurrent

C1_Step ==
    /\ SQ_LoopStarts => ~sq_processing /\ sq_processing'
    /\ MQ_LoopStarts => ~mq_isProcessing /\ mq_isProcessing'
    /\ \A j \in JobId : Starts(j) =>
           IF impl = "simple" THEN sq_processing' ELSE mq_isProcessing'

\* C1: in both queues at most one worker loop is active and at most one
\* task executes at any time; a loop is started only while the processing
\* flag is false, and the flag is true whenever a loop is active and in
\* every step that takes a task from the queue and starts executing it.
C1_SingleWorker == []C1_State /\ [][C1_Step]_vars

\* a retried job is executing while another job waits behind it
C1_Witness ==
    /\ impl = "simple"
    /\ ExecLoops(sq_loops) # {}
    /\ Len(sq_queue) >= 2
    /\ \E j \in JobId : h_retries[j] >= 1

AllFail(o) == \A i \in 1..Len(o) : o[i] = "fail"

C2_State ==
    impl = "simple" =>
    \A j \in JobId :
        /\ sq_jobs[j].attempts = h_started[j]
        /\ sq_jobs[j].attempts <= MAX_ATTEMPTS
        /\ sq_jobs[j].status = "completed" =>
               /\ Len(h_outcomes[j]) = sq_jobs[j].attempts
               /\ h_outcomes[j][Len(h_outcomes[j])] = "ok"
               /\ AllFail(SubSeq(h_outcomes[j], 1, Len(h_outcomes[j]) - 1))
        /\ sq_jobs[j].status = "failed" =>
               /\ sq_jobs[j].attempts = MAX_ATTEMPTS
               /\ Len(h_outcomes[j]) = MAX_ATTEMPTS
               /\ AllFail(h_outcomes[j])
               /\ sq_jobs[j].error \in ErrMsgs
               /\ sq_jobs[j].error = h_lastErr[j]
        /\ SQ_Pending(j) =>
               /\ AllFail(h_outcomes[j])
               /\ Len(h_outcomes[j]) < MAX_ATTEMPTS
               /\ j \in SeqElems(sq_queue)

C2_Step ==
    impl = "simple" =>
    \A j \in JobId :
        SQ_Terminal(j) /\ Starts(j) => h_retries'[j] > h_retries[j]

\* C2: a SimpleQueue job is executed until its first success or until
\* maxAttempts executions have failed; it is then 'completed', or 'failed'
\* with the message of the last failure; attempts counts the executions
\* and never exceeds maxAttempts; a completed or failed job is executed
\* again only through a manual retry.
C2_RetryPolicy == []C2_State /\ [][C2_Step]_vars

\* a job whose first maxAttempts-1 executions failed and whose next
\* execution succeeded
C2_Witness ==
    /\ impl = "simple"
    /\ \E j \in JobId : /\ sq_jobs[j].status = "completed"
                        /\ sq_jobs[j].attempts = MAX_ATTEMPTS

\* position of job j in the order of first executions (0: not started)
FirstStartPos(j) ==
    IF \E i \in 1..Len(h_firstStarts) : h_firstStarts[i] = j
    THEN CHOOSE i \in 1..Len(h_firstStarts) : h_firstStarts[i] = j
    ELSE 0

NeverFailed(j) ==
    /\ h_retries[j] = 0
    /\ \A i \in 1..Len(h_outcomes[j]) : h_outcomes[j][i] # "fail"

C3_State ==
    /\ \A w \in LoopId : sq_loops[w].pc = "exec" =>
           /\ sq_queue # <<>>
           /\ sq_loops[w].job = Head(sq_queue)
    /\ \A j, k \in JobId :
           /\ j < k
           /\ NeverFailed(j) /\ NeverFailed(k)
           /\ FirstStartPos(k) > 0
           => /\ FirstStartPos(j) > 0 \/ (impl = "memory" /\ h_clears > 0)
              /\ FirstStartPos(j) > 0 => FirstStartPos(j) < FirstStartPos(k)

C3_Step ==
    \* enqueue appends at the tail (an idle MemoryQueue shifts the new
    \* task out at once to execute it)
    /\ h_created' # h_created =>
           IF impl = "simple"
           THEN sq_queue' = Append(sq_queue, h_created')
           ELSE IF Starts(h_created')
                THEN mq_queue = <<>> /\ mq_queue' = <<>>
                ELSE mq_queue' = Append(mq_queue, h_created')
    \* the task whose execution starts is the head of the queue
    /\ \A j \in JobId : Starts(j) =>
           IF impl = "simple"
           THEN j = Head(sq_queue')
           ELSE \/ j = h_created' /\ h_created' # h_created
                \/ mq_queue # <<>> /\ j = Head(mq_queue)
                   /\ mq_queue' = Tail(mq_queue)
    \* a failed job with attempts left moves from the head to the tail
    /\ \A j \in JobId :
           /\ impl = "simple"
           /\ Len(h_outcomes'[j]) > Len(h_outcomes[j])
           /\ h_outcomes'[j][Len(h_outcomes'[j])] = "fail"
           /\ sq_jobs[j].attempts < MAX_ATTEMPTS
           => /\ sq_queue # <<>> /\ Head(sq_queue) = j
              /\ sq_queue' = Append(Tail(sq_queue), j)
    \* every job that was pending then has started before the retry starts
    /\ \A j \in JobId : Starts(j) => h_before[j] = {}

\* C3: the worker executes the head of the queue; enqueue appends at the
\* tail; a job that failed with attempts left is re-appended at the tail,
\* so every job pending at that moment starts before the failed job is
\* retried; jobs that never fail start in the order they were enqueued.
C3_QueueDiscipline == []C3_State /\ [][C3_Step]_vars

\* job 1 failed, was re-appended behind job 2, and is executing its retry
\* after job 2 has started
C3_Witness ==
    /\ impl = "simple"
    /\ h_started[1] = 2
    /\ h_total[2] >= 1
    /\ \E w \in LoopId : sq_loops[w].pc = "exec" /\ sq_loops[w].job = 1

C4_State ==
    /\ sq_queue # <<>> => ActiveLoops(sq_loops) # {}
    /\ mq_queue # <<>> => ActiveLoops(mq_loops) # {} \/ mq_timers > 0
    /\ ActiveLoops(sq_loops) = {} => ~sq_processing
    /\ ActiveLoops(mq_loops) = {} => ~mq_isProcessing /\ mq_timers = 0
    /\ \A w \in LoopId : mq_loops[w].pc # "delay"

C4_Step ==
    \* a loop that finds the queue empty ends, with the flag false
    /\ \A w \in LoopId :
           sq_loops[w].pc = "delay" /\ sq_loops'[w].pc # "delay"
           /\ sq_queue = <<>>
           => sq_loops'[w].pc = "idle" /\ ~sq_processing'
    /\ \A w \in LoopId :
           mq_loops[w].pc = "exec" /\ mq_loops' # mq_loops /\ mq_queue = <<>>
           => mq_loops'[w].pc = "idle" /\ ~mq_isProcessing'
    \* a loop ends only on an empty queue
    /\ \A w \in LoopId :
           sq_loops[w].pc # "idle" /\ sq_loops'[w].pc = "idle"
           => sq_queue' = <<>>
    /\ \A w \in LoopId :
           mq_loops[w].pc # "idle" /\ mq_loops'[w].pc = "idle"
           => mq_queue' = <<>>

\* C4: when every execution terminates and clear() is not called, every
\* enqueued task eventually is completed or failed; a loop that finds the
\* queue empty ends with the processing flag false and nothing polls; and
\* no task is ever pending in the queue while no loop is active or
\* scheduled.
C4_NoLostWakeup ==
    /\ []C4_State
    /\ [][C4_Step]_vars
    /\ \A j \in JobId : [](SQ_Pending(j) => <>SQ_Terminal(j))
    /\ \A j \in JobId : [](MQ_Pending(j) => <>MQ_Terminal(j))

\* a job added while the loop was busy waits, not yet started, during the
\* loop's inter-job delay
C4_Witness ==
    /\ impl = "simple"
    /\ \E w \in LoopId : sq_loops[w].pc = "delay"
    /\ sq_queue # <<>>
    /\ sq_jobs[Head(sq_queue)].status = "queued"
    /\ \E j \in JobId : SQ_Terminal(j)

\* ------------------------------------------------------------------------
\* Properties of sendEmailWithAttachments
\* ------------------------------------------------------------------------
RECURSIVE ChunkBytes(_, _)
ChunkBytes(chunk, sizes) ==
    IF chunk = <<>> THEN 0
    ELSE sizes[Head(chunk)] + ChunkBytes(Tail(chunk), sizes)

RECURSIVE Flatten(_)
Flatten(chunks) ==
    IF chunks = <<>> THEN <<>> ELSE Head(chunks) \o Flatten(Tail(chunks))

RECURSIVE KeptFrom(_, _, _)
KeptFrom(sizes, i, max) ==
    IF i > Len(sizes) THEN <<>>
    ELSE IF sizes[i] = Unreadable \/ sizes[i] > max
    THEN KeptFrom(sizes, i + 1, max)
    ELSE <<i>> \o KeptFrom(sizes, i + 1, max)

\* the chunking loop has run: the call is past its start and was not
\* rejected by the configuration test
Chunked == em_pc # "start" /\ (ChecksConfig(em_variant) => em_config)

EmMax == MAX_SIZE_PER_EMAIL(em_variant)

\* C5: every batch produced by the chunking step has a cumulative size of
\* at most MAX_SIZE_PER_EMAIL, and a file larger than the ceiling is in no
\* batch.
C5_BatchWithinCeiling ==
    Chunked =>
        /\ \A b \in 1..Len(em_chunks) :
               ChunkBytes(em_chunks[b], em_sizes) <= EmMax
        /\ \A b \in 1..Len(em_chunks) : \A p \in 1..Len(em_chunks[b]) :
               em_sizes[em_chunks[b][p]] <= EmMax

\* C6: in the versions that skip oversized files, the batches concatenated
\* in batch order are the input attachments in their original order
\* without the files larger than the ceiling and the unreadable files; no
\* batch is empty.
C6_OrderPreserved ==
    Chunked /\ SkipsOversized(em_variant) =>
        /\ Flatten(em_chunks) = KeptFrom(em_sizes, 1, EmMax)
        /\ \A b \in 1..Len(em_chunks) : em_chunks[b] # <<>>

\* several batches were built from a list holding an oversized and an
\* unreadable file
C6_Witness ==
    /\ Chunked /\ SkipsOversized(em_variant)
    /\ Len(em_chunks) >= 2
    /\ \E i \in 1..Len(em_sizes) : em_sizes[i] > EmMax
    /\ \E i \in 1..Len(em_sizes) : em_sizes[i] = Unreadable

\* C7: chunking is greedy with an inclusive boundary: a batch is closed
\* exactly when the next kept file would make it strictly larger than the
\* ceiling, so every batch fits and no batch could have taken the first
\* file of the next one; sizes [1MB, 1MB, 3MB, 0.5MB] under a 2MB ceiling
\* give the batches [1MB, 1MB] and [0.5MB].
C7_Greedy ==
    /\ EmailChunks(<<MB, MB, 3 * MB, MB \div 2>>, 2 * MB, TRUE)
           = << <<1, 2>>, <<4>> >>
    /\ Chunked /\ SkipsOversized(em_variant) =>
        /\ \A b \in 1..Len(em_chunks) :
               ChunkBytes(em_chunks[b], em_sizes) <= EmMax
        /\ \A b \in 1..(Len(em_chunks) - 1) :
               ChunkBytes(em_chunks[b], em_sizes)
                   + em_sizes[em_chunks[b + 1][1]] > EmMax
        /\ em_sizes = <<EmMax \div 2, EmMax \div 2, (3 * EmMax) \div 2,
                        EmMax \div 4>>
               => em_chunks = << <<1, 2>>, <<4>> >>

\* the example list, scaled to the deployed ceiling, has been chunked: its
\* first batch is exactly as large as the ceiling
C7_Witness ==
    /\ Chunked /\ em_variant = "smtp_skip"
    /\ em_sizes = <<EmMax \div 2, EmMax \div 2, (3 * EmMax) \div 2,
                    EmMax \div 4>>
    /\ ChunkBytes(em_chunks[1], em_sizes) = EmMax

\* C8: batches are sent one at a time in index order, each after the
\* previous send succeeded; a failed send ends the call with that error
\* and no later batch is sent.
C8_FailFast ==
    /\ \A k \in 1..Len(em_log) :
           em_log[k].ev = "send" =>
               /\ em_log[k].batch = 1 + Cardinality(
                      {m \in 1..(k - 1) : em_log[m].ev = "send"})
               /\ k > 1 => em_log[k - 1] =
                               [ev |-> "ok", batch |-> em_log[k].batch - 1]
    /\ \A k \in 1..Len(em_log) :
           em_log[k].ev = "fail" =>
               /\ k = Len(em_log)
               /\ em_pc = "threw"
               /\ em_error \in ErrMsgs

\* ------------------------------------------------------------------------
\* Properties of the temp files
\* ------------------------------------------------------------------------
\* files that have been written to disk so far
Materialised == cl_disk \cup cl_unlinked

\* C9: when an email pipeline has returned or thrown, the deletion of
\* every temp file it materialised has been attempted.
C9_TempFilesCleaned ==
    cl_pc \in {"returned", "threw"} => Materialised \subseteq cl_unlinked

\* C10 as stated: when an invocation of analyzePDF has returned or
\* thrown, its temp file is absent, whichever of the download, the upload,
\* the model call or the parsing failed.
C10_TempFileAbsent ==
    \A c \in CallId :
        pd_calls[c].pc \in {"returned", "threw"} => c \notin pd_disk

\* C10 as amended: when an invocation of analyzePDF has returned or thrown,
\* cleanupFile has run on its temp file, and the file is absent unless the
\* unlink of that cleanup failed.
C10_TempFileAbsentUnlessUnlinkFails ==
    \A c \in CallId :
        pd_calls[c].pc \in {"returned", "threw"} =>
            (c \in pd_disk <=> pd_calls[c].unlinkFailed)

\* one invocation returned and its file is gone; another threw after
\* writing its file, the unlink of its cleanup failed and the file is there
C10_Witness ==
    \E c, d \in CallId :
        /\ pd_calls[c].pc = "returned" /\ pd_calls[c].wrote
        /\ pd_calls[d].pc = "threw" /\ pd_calls[d].wrote
        /\ pd_calls[d].unlinkFailed
        /\ pd_disk = {d}

\* ------------------------------------------------------------------------
\* Properties of the webhook route
\* ------------------------------------------------------------------------
\* the collaborator calls made so far
CallOps == {wh_calls[i].op : i \in 1..Len(wh_calls)}

Direct == wh_variant \in {"direct_v1", "direct_v2"}

\* the first event has been read
Classified == wh_body.kind = "events" /\ wh_pc # "received"

\* the event carries the send-report trigger (test_webhook,
\* deal.propertyChange)
TriggerEvent ==
    /\ wh_body.event.propertyName = "test_webhook"
    /\ wh_body.event.subscriptionType = "deal.propertyChange"

\* the event carries a propertyValue
ValuePresent == wh_body.event.propertyValue \notin {Absent, <<>>}

EmailOps == {"assoc", "internal", "errorLog"}

AnalyzeOps == {"signedUrl", "extract", "errorLog", "extractedData",
               "fileId", "fields"}

C11_State ==
    (Direct /\ Classified) =>
        /\ wh_path = IF TriggerEvent THEN "EmailPath"
                     ELSE IF ValuePresent THEN "AnalyzePath"
                     ELSE "Ignored"
        /\ wh_path = "EmailPath" =>
               /\ CallOps \subseteq EmailOps
               /\ wh_result = "none"
               /\ wh_calls # <<>> => wh_calls[1].op = "assoc"
        /\ wh_path = "AnalyzePath" =>
               /\ CallOps \subseteq AnalyzeOps
               /\ wh_result # "ignored"
               /\ wh_calls # <<>> => wh_calls[1].op = "signedUrl"
        /\ wh_path = "Ignored" =>
               /\ wh_calls = <<>>
               /\ wh_result = "ignored"

C11_Step == wh_path # "none" => wh_path' = wh_path

\* C11: the two routes of server.js take the EmailPath for an event with
\* the trigger pair (test_webhook, deal.propertyChange), with or without
\* propertyValue; otherwise the AnalyzePath when propertyValue is present;
\* otherwise the event is Ignored.  The path is one of the three, is fixed
\* once taken, and only the calls of that path are made.
C11_Classification == []C11_State /\ [][C11_Step]_vars

\* a trigger event that also carries a parsable propertyValue went down
\* the EmailPath as far as the internal send-email call
C11_Witness ==
    /\ Direct
    /\ TriggerEvent
    /\ ValuePresent
    /\ parseFileRecordString(wh_body.event.propertyValue).ok
    /\ wh_path = "EmailPath"
    /\ "internal" \in CallOps

\* C12: an event without propertyValue that is not the trigger is a no-op:
\* nothing is thrown, no collaborator is called, no task fails, and the
\* call is acknowledged.
C12_IgnoredNoOp ==
    (Classified /\ ~ValuePresent /\ ~TriggerEvent) =>
        /\ wh_calls = <<>>
        /\ wh_result # "threw"
        /\ wh_job # "failed"
        /\ wh_res # <<>>
        /\ wh_res[1] \in {200, 202, 204}

\* positions of the commas of a string
Commas(str) == {i \in 1..Len(str) : str[i] = ","}

\* the characters of str strictly between positions lo and hi, without the
\* blanks at both ends; <<>> when there is nothing else
Between(str, lo, hi) ==
    LET inked == {i \in (lo + 1)..(hi - 1) : str[i] # " "}
    IN  IF inked = {} THEN <<>>
        ELSE LET first == CHOOSE i \in inked : \A k \in inked : i <= k
                 last == CHOOSE i \in inked : \A k \in inked : k <= i
             IN  SubSeq(str, first, last)

\* a string of exactly three comma-separated parts, none of them blank
WellFormedTriple(str) ==
    /\ Cardinality(Commas(str)) = 2
    /\ LET c1 == CHOOSE i \in Commas(str) : \A k \in Commas(str) : i <= k
           c2 == CHOOSE i \in Commas(str) : \A k \in Commas(str) : k <= i
       IN  /\ Between(str, 0, c1) # <<>>
           /\ Between(str, c1, c2) # <<>>
           /\ Between(str, c2, Len(str) + 1) # <<>>

\* the messages of the two validation Errors as they leave utils/helpers.js
ValidationErrors ==
    {"Invalid file record format: Invalid input format",
     "Invalid file record format: All parts must be non-empty"}

\* C13: for the propertyValue string of the event, parseFileRecordString
\* returns the trimmed triple exactly when the string has three
\* comma-separated parts that are all non-blank, and otherwise throws one
\* of its two validation Errors; after such an Error the direct servers'
\* processWebhookData has ended at once, with no collaborator called.
C13_ParseTriple ==
    (Classified /\ ValuePresent) =>
        LET str == wh_body.event.propertyValue
            r == parseFileRecordString(str)
        IN  /\ r.ok <=> WellFormedTriple(str)
            /\ r.ok =>
                   LET c1 == CHOOSE i \in Commas(str) :
                                 \A k \in Commas(str) : i <= k
                       c2 == CHOOSE i \in Commas(str) :
                                 \A k \in Commas(str) : k <= i
                   IN  /\ r.fileId = Between(str, 0, c1)
                       /\ r.objectTypeId = Between(str, c1, c2)
                       /\ r.recordId = Between(str, c2, Len(str) + 1)
                       /\ r.error = NoError
            /\ ~r.ok => r.error \in ValidationErrors
            /\ (~r.ok /\ Direct /\ ~TriggerEvent) =>
                   /\ wh_path = "AnalyzePath"
                   /\ wh_calls = <<>>
                   /\ wh_result = "threw"
                   /\ wh_pc = "done"
            /\ (r.ok /\ Direct /\ ~TriggerEvent) =>
                   (wh_calls = <<>> => wh_pc = "signedUrl")

\* a string of three parts, the middle one blank, was rejected by a direct
\* server without any call
C13_Witness ==
    /\ Direct
    /\ ~TriggerEvent
    /\ wh_pc = "done"
    /\ wh_body.event.propertyValue = <<"a", ",", " ", ",", "a">>
    /\ wh_result = "threw"
    /\ wh_calls = <<>>

\* ------------------------------------------------------------------------
\* Properties of the AnalyzePath of the direct servers
\* ------------------------------------------------------------------------
\* the analysis of the document failed
ExtractionFailed == \E i \in 1..Len(wh_calls) :
                        wh_calls[i] = Call("extract", FALSE)

DataOps == {"extractedData", "fileId", "fields"}

\* C14: when analyzeImage / analyzePDF fails in a direct server, the next
\* thing processWebhookData does is the error-log write for the entity; no
\* extracted-data, file-id or per-field write is made; and when that write
\* has settled the call has returned the soft-failure result (answered 204
\* by the second route), whatever the CRM answered: it does not throw.
C14_ExtractionSoftFailure ==
    (Direct /\ ExtractionFailed) =>
        LET i == CHOOSE k \in 1..Len(wh_calls) :
                     wh_calls[k] = Call("extract", FALSE)
        IN  /\ CallOps \cap DataOps = {}
            /\ Len(wh_calls) <= i + 1
            /\ Len(wh_calls) = i => wh_pc = "errorLog"
            /\ Len(wh_calls) = i + 1 =>
                   /\ wh_calls[i + 1].op = "errorLog"
                   /\ wh_pc = "done"
                   /\ wh_result = "soft"
                   /\ ~wh_unhandled
                   /\ wh_variant = "direct_v2" => wh_res = <<204>>

\* a failure of the analysis or of a CRM write of the AnalyzePath
PipelineFailed ==
    \E i \in 1..Len(wh_calls) :
        /\ wh_calls[i].op \in {"extract", "extractedData", "fileId"}
        /\ ~wh_calls[i].ok

\* C15: every run of the AnalyzePath in which the analysis or a CRM write
\* failed ends with the soft-failure result after an error-log write was
\* attempted, and never with an exception.
C15_AlwaysSoftFailure ==
    (Direct /\ wh_path = "AnalyzePath" /\ PipelineFailed
        /\ wh_pc = "done") =>
        /\ wh_result = "soft"
        /\ "errorLog" \in CallOps
        /\ ~wh_unhandled

\* C16: updateErrorLog never raises: when its CRM write fails, the caller
\* that awaited it from its error handling still returns the soft failure,
\* and a floating call leaves no unhandled rejection.
C16_ErrorLogNeverRaises ==
    (Call("errorLog", FALSE) \in {wh_calls[i] : i \in 1..Len(wh_calls)}) =>
        /\ ~wh_unhandled
        /\ wh_path = "AnalyzePath" => wh_result = "soft"

\* C18: every inbound call is acknowledged with 200, 202 or 204, whatever
\* the body and whatever fails, and on the EmailPath the acknowledgement
\* is sent while the email dispatch is still running.
C18_AlwaysAcknowledged ==
    /\ wh_pc \in {"done", "background", "bgErrorLog"} =>
           /\ wh_res # <<>>
           /\ wh_res[1] \in {200, 202, 204}
    /\ wh_pc = "internal" => wh_res = <<200>>

\* ------------------------------------------------------------------------
\* Properties of updateIndividualProperties
\* ------------------------------------------------------------------------
\* a field value that is a non-empty string
NonEmpty(v) == v \notin {Absent, Null, <<>>}

\* the per-field properties in their fixed order, each with the condition
\* under which it has a value to write
FieldOrder ==
    << [name |-> "extracted_full_name",
        filled |-> NonEmpty(fl_data.firstName)
                       \/ NonEmpty(fl_data.lastName)],
       [name |-> "extracted_address",
        filled |-> NonEmpty(fl_data.streetAddress)],
       [name |-> "extracted_dob",
        filled |-> NonEmpty(fl_data.dateOfBirth)],
       [name |-> "extracted_nationality",
        filled |-> NonEmpty(fl_data.nationality)],
       [name |-> "extracted_work_permit_date",
        filled |-> NonEmpty(fl_data.workPermitDate)],
       [name |-> "extracted_work_permit_type",
        filled |-> NonEmpty(fl_data.workPermitType)] >>

IsFilled(f) == f.filled

\* the properties that are to be written, in order
Expected == SelectSeq(FieldOrder, IsFilled)

\* C17: the writes attempted so far are, in order, the first of the
\* properties with a non-empty value; the report holds one entry per
\* attempted write, success or failure with its message; and when the call
\* has returned every such property was attempted, whichever writes
\* failed.  No write, failed or not, makes the call throw: it throws only
\* on a null extractedData, before any write.
C17_IndependentFieldWrites ==
    /\ fl_pc \in {"idle", "start", "writing", "delay", "returned", "threw"}
    /\ fl_pc = "threw" => fl_null /\ fl_writes = <<>>
    /\ Len(fl_writes) <= Len(Expected)
    /\ \A k \in 1..Len(fl_writes) :
           fl_writes[k].property = Expected[k].name
    /\ Len(fl_updates) = Len(fl_writes)
    /\ \A k \in 1..Len(fl_updates) :
           /\ fl_updates[k].property = fl_writes[k].property
           /\ fl_updates[k].success = fl_writes[k].ok
           /\ fl_updates[k].success <=> fl_updates[k].error = NoError
    /\ fl_pc = "returned" => Len(fl_writes) = Len(Expected)
    /\ fl_pc = "writing" =>
           /\ Len(fl_writes) < Len(Expected)
           /\ PropertiesToUpdate(fl_data)[fl_i].name =
                  Expected[Len(fl_writes) + 1].name

\* the call returned after the first of three writes failed and the other
\* two were made
C17_Witness ==
    /\ fl_pc = "returned"
    /\ Len(fl_writes) = 3
    /\ ~fl_writes[1].ok
    /\ fl_writes[2].ok
    /\ ~fl_updates[1].success

\* ------------------------------------------------------------------------
\* Properties of enqueue and clear
\* ------------------------------------------------------------------------
\* status of task j in the deployed queue
StatusOf(j) == IF impl = "simple" THEN sq_jobs[j].status
               ELSE mq_items[j].status

\* the enqueueing call of this step returns the id h_created + 1, which no
\* earlier call returned, with the task queued or just started and no
\* execution of it ended
C19_Step ==
    h_created' # h_created =>
        LET t == h_created + 1
        IN  /\ h_created' = t
            /\ h_outcomes'[t] = <<>>
            /\ impl = "simple" =>
                   /\ sq_jobs[t] = SQ_NoJob
                   /\ sq_jobs'[t].status \in {"queued", "processing"}
                   /\ t \in SeqElems(sq_queue')
                   /\ t \in sq_map'
            /\ impl = "memory" =>
                   /\ mq_items[t] = MQ_NoItem
                   /\ mq_items'[t].status \in {"queued", "processing"}
                   /\ \/ t \in SeqElems(mq_queue')
                      \/ \E w \in LoopId : mq_loops'[w] =
                                               [pc |-> "exec", job |-> t]

\* a task becomes completed or failed in a later step than the one of its
\* enqueueing call, at the end of an execution
C19_Ends ==
    \A j \in JobId :
        (sq_jobs'[j].status \in {"completed", "failed"}
            /\ sq_jobs[j].status \notin {"completed", "failed"})
        \/ (mq_items'[j].status \in {"completed", "failed"}
            /\ mq_items[j].status \notin {"completed", "failed"})
        => /\ h_created' = h_created
           /\ j <= h_created
           /\ Len(h_outcomes'[j]) = Len(h_outcomes[j]) + 1

\* C19: SimpleQueue.add and MemoryQueue.enqueue (and with them the queued
\* webhook route and queueEmailForContact, which answer in the same turn)
\* return the new id while the task is queued or has only been started;
\* the task is completed or failed only in a later step.
C19_EnqueueNonBlocking == [][C19_Step /\ C19_Ends]_vars

\* a task enqueued on the idle queue was started by the enqueueing call
\* itself and has completed since; the next call has returned while its
\* task is still waiting or running
C19_Witness ==
    /\ h_created = 2
    /\ h_firstStarts # <<>>
    /\ StatusOf(1) = "completed"
    /\ StatusOf(2) \in {"queued", "processing"}

\* the tasks a clear() call found pending
ClearedBy(k) == SeqElems(h_clearLog[k].pending)

C20_Step ==
    h_clears' # h_clears =>
        /\ mq_queue' = <<>>
        /\ Len(h_clearLog') = Len(h_clearLog) + 1
        /\ h_clearLog'[Len(h_clearLog')].returned = Len(mq_queue)
        /\ h_clearLog'[Len(h_clearLog')].pending = mq_queue
        /\ mq_isProcessing' = mq_isProcessing
        /\ mq_processingCount' = mq_processingCount
        /\ mq_loops' = mq_loops
        /\ mq_items' = mq_items

C20_State ==
    \A k \in 1..Len(h_clearLog) :
        /\ h_clearLog[k].returned = Cardinality(ClearedBy(k))
        /\ \A j \in ClearedBy(k) :
               /\ mq_items[j].status = "queued"
               /\ h_total[j] = 0
               /\ h_outcomes[j] = <<>>
               /\ j \notin SeqElems(mq_queue)
               /\ \A w \in LoopId : mq_loops[w].job # j
        /\ \A j \in h_clearLog[k].inflight :
               /\ j \notin ClearedBy(k)
               /\ mq_items[j].status \in {"processing", "completed",
                                           "failed"}
               /\ mq_items[j].status = "processing" =>
                      \E w \in LoopId : mq_loops[w] =
                                            [pc |-> "exec", job |-> j]

\* C20: clear() empties the queue of pending tasks and returns their
\* number; the flag, the counter and the in-flight task are untouched, the
\* in-flight task goes on to completed or failed, and a cleared task is
\* never executed.
C20_ClearPending == []C20_State /\ [][C20_Step]_vars

\* clear() removed a pending task while another was in flight, and the
\* in-flight task has completed since
C20_Witness ==
    \E k \in 1..Len(h_clearLog) :
        /\ h_clearLog[k].returned = 1
        /\ \E j \in h_clearLog[k].inflight :
               mq_items[j].status = "completed"

\* ------------------------------------------------------------------------
\* Properties of status introspection and of the email tasks
\* ------------------------------------------------------------------------
\* the tasks an invocation of processQueue is executing
Executing ==
    IF impl = "simple"
    THEN {sq_loops[w].job : w \in ExecLoops(sq_loops)}
    ELSE {mq_loops[w].job : w \in ExecLoops(mq_loops)}

\* the tasks that wait for an execution: enqueued, not withdrawn by clear(),
\* not running, with an execution (the first or a retry) still to come
Waiting ==
    IF impl = "simple"
    THEN SeqElems(sq_queue) \ Executing
    ELSE {j \in JobId : /\ mq_items[j].status = "queued"
                        /\ \A k \in 1..Len(h_clearLog) :
                               j \notin SeqElems(h_clearLog[k].pending)}

\* what the status call of the deployed queue returns in this state
Reported ==
    IF impl = "simple"
    THEN SQ_getQueueStatus(sq_queue, sq_processing, sq_jobs, sq_map)
    ELSE MQ_getStatus(mq_queue, mq_processingCount, mq_isProcessing,
                      mq_items)

\* C21: in every reachable state the status call reports as queued the
\* number of tasks that wait and are not executing, as processing the
\* number of tasks that are executing (0 or 1), and so counts no task
\* twice.
C21_StatusSnapshot ==
    /\ Reported.queued = Cardinality(Waiting)
    /\ Reported.processing = Cardinality(Executing)
    /\ Reported.processing \in {0, 1}
    /\ Waiting \cap Executing = {}

\* C22: a failed email task of the MemoryQueue carries status failed and
\* its error message, and getStatus() still reports it as failed after it
\* has left the queue.
C22_FailureObservable ==
    impl = "memory" =>
        \A j \in JobId :
            mq_items[j].status = "failed" =>
                /\ mq_items[j].error = h_lastErr[j]
                /\ mq_items[j].error # NoError
                /\ LET st == MQ_getStatus(mq_queue, mq_processingCount,
                                          mq_isProcessing, mq_items)
                   IN  \E i \in 1..Len(st.queueItems) :
                           /\ st.queueItems[i].id = j
                           /\ st.queueItems[i].status = "failed"

\* C23: an email task of the MemoryQueue is marked failed only after it
\* has been executed again, MAX_ATTEMPTS times in all.
C23_EmailTaskRetried ==
    impl = "memory" =>
        \A j \in JobId :
            mq_items[j].status = "failed" =>
                /\ h_total[j] > 1
                /\ h_total[j] = MAX_ATTEMPTS

\* C24: the totalAttachments of the object sendEmailWithAttachments
\* resolves with is the number of attachments placed in the batches that
\* were sent: a skipped oversized file and a file whose size could not be
\* read are not counted.
C24_TotalAttachments ==
    (em_variant \in {"smtp", "smtp_skip"} /\ em_pc = "returned") =>
        LET sent == {k \in 1..Len(em_log) : em_log[k].ev = "ok"}
            placed == Flatten(em_chunks)
        IN  /\ Cardinality(sent) = Len(em_chunks)
            /\ EM_Result(em_sizes, em_log).emailsSent = Len(em_chunks)
            /\ EM_Result(em_sizes, em_log).totalAttachments = Len(placed)

\* ------------------------------------------------------------------------
\* Properties of the status of a task
\* ------------------------------------------------------------------------
StatusEdges ==
    {<<"queued", "processing">>, <<"processing", "completed">>,
     <<"processing", "queued">>, <<"processing", "failed">>}

\* a status of an existing task changes along an edge only
C25_Step ==
    \A j \in JobId :
        /\ (sq_jobs[j].status # "none"
               /\ sq_jobs'[j].status # sq_jobs[j].status)
           => <<sq_jobs[j].status, sq_jobs'[j].status>> \in StatusEdges
        /\ (mq_items[j].status # "none"
               /\ mq_items'[j].status # mq_items[j].status)
           => <<mq_items[j].status, mq_items'[j].status>> \in StatusEdges

\* a task that waits in the queue, for its first execution or for a retry
\* after a failed one, is queued
C25_State ==
    \A j \in Waiting : StatusOf(j) = "queued"

\* C25: the status of a task changes only from queued to processing and
\* from processing to completed, queued (retry) or failed; a task waiting
\* in the queue for its retry is queued; completed and failed are never
\* left.
C25_StatusEdges == []C25_State /\ [][C25_Step]_vars

\* ------------------------------------------------------------------------
\* Properties of the order of the steps and of the responses
\* ------------------------------------------------------------------------
\* the collaborator calls of a run whose analysis succeeds, in order, and
\* the position of the run while each of them is pending
StepOrder == <<"signedUrl", "extract", "extractedData", "fileId", "fields">>

StepPending == <<"signedUrl", "extract", "saveData", "saveFileId", "fields">>

\* C26: in a run of services.processWebhookData for a valid event whose
\* analysis does not fail, the calls are made in the order resolve,
\* classify, extract, persist (extracted data, file id, then the single
\* fields), each one after the previous one has completed; nothing is
\* persisted before the analysis has returned; no analysis is called for
\* an 'unknown' file type; and the success result carries the file type
\* the classification gave.
C26_StrictOrder ==
    (Direct /\ wh_path = "AnalyzePath" /\ ~ExtractionFailed) =>
        /\ Len(wh_calls) <= Len(StepOrder)
        /\ \A i \in 1..Len(wh_calls) :
               /\ wh_calls[i].op = StepOrder[i]
               /\ i < Len(wh_calls) => wh_calls[i].ok
        /\ \A k \in 1..Len(StepPending) :
               wh_pc = StepPending[k] =>
                   /\ Len(wh_calls) = k - 1
                   /\ \A i \in 1..Len(wh_calls) : wh_calls[i].ok
        /\ (wh_fileType = "none") =
               (Call("signedUrl", TRUE) \notin
                    {wh_calls[i] : i \in 1..Len(wh_calls)})
        /\ wh_fileType = "unknown" =>
               /\ wh_pc = "done"
               /\ wh_result = "threw"
               /\ Len(wh_calls) = 1
        /\ (wh_pc = "extract" \/ "extract" \in CallOps) =>
               wh_fileType \in {"image", "pdf"}
        /\ (CallOps \cap DataOps # {} \/ wh_pc = "saveData") =>
               wh_calls[2] = Call("extract", TRUE)
        /\ (wh_result = "success") = (wh_returned # "none")
        /\ wh_result = "success" =>
               /\ wh_pc = "done"
               /\ Len(wh_calls) = Len(StepOrder)
               /\ \A i \in 1..Len(wh_calls) : wh_calls[i].ok
               /\ wh_returned = wh_fileType
               /\ wh_returned \in {"image", "pdf"}

\* a run classified its document as an image, made the five calls and
\* returned the success result for an image
C26_Witness ==
    /\ Direct
    /\ wh_path = "AnalyzePath"
    /\ wh_result = "success"
    /\ wh_fileType = "image"
    /\ wh_returned = "image"
    /\ Len(wh_calls) = 5

\* C28: a webhook request is answered at most once: after the handler has
\* sent its acknowledgement no later step of it, its catch block included,
\* sends another response.
C28_SingleResponse == Len(wh_res) <= 1

\* C30: on the email path of the second route, which calls the internal
\* send-email API in the background after the acknowledgement, an
\* error-log write is issued only if that call failed.
C30_ErrorLogOnlyOnFailure ==
    (wh_variant = "direct_v2" /\ wh_path = "EmailPath") =>
        /\ (wh_pc = "bgErrorLog" \/ "errorLog" \in CallOps) =>
               Call("internal", FALSE) \in
                   {wh_calls[i] : i \in 1..Len(wh_calls)}
        /\ Call("internal", TRUE) \in
               {wh_calls[i] : i \in 1..Len(wh_calls)} =>
                   /\ wh_pc = "done"
                   /\ "errorLog" \notin CallOps

\* ------------------------------------------------------------------------
\* Properties of SimpleQueue with the manual-retry route
\* ------------------------------------------------------------------------
C29_State ==
    /\ \A i, k \in 1..Len(sq_queue) : i # k => sq_queue[i] # sq_queue[k]
    /\ SeqElems(sq_queue) \subseteq sq_map
    /\ \A w \in ExecLoops(sq_loops) : sq_loops[w].job \in sq_map

C29_Step ==
    /\ \A j \in JobId :
           h_retries'[j] # h_retries[j] =>
               /\ sq_jobs[j].status = "failed"
               /\ j \notin SeqElems(sq_queue)
               /\ sq_queue' = Append(sq_queue, j)
               /\ IF sq_processing
                  THEN /\ sq_jobs'[j].status = "queued"
                       /\ sq_jobs'[j].attempts = 0
                  ELSE /\ sq_jobs'[j].status = "processing"
                       /\ sq_jobs'[j].attempts = 1
    /\ \A j \in sq_map \ sq_map' :
           /\ sq_jobs[j].status = "completed"
           /\ j \notin SeqElems(sq_queue)
           /\ \A w \in LoopId : sq_loops[w].pc = "exec" =>
                  sq_loops[w].job # j

\* C29: in SimpleQueue a job occurs at most once in the queue and every
\* job of the queue (and the executing one) is in the jobs map; the retry
\* route takes only a failed job, which is not in the queue, resets its
\* attempts and status and appends it at the tail; cleanupOldJobs removes
\* only completed jobs, never a queued or executing one.
C29_QueueMapInvariant == []C29_State /\ [][C29_Step]_vars

\* a job that had failed for good was put back by the retry route at the
\* tail, behind the job the busy worker is executing
C29_Witness ==
    /\ impl = "simple"
    /\ \E j \in JobId :
           /\ h_retries[j] = 1
           /\ h_total[j] = MAX_ATTEMPTS
           /\ sq_jobs[j].status = "queued"
           /\ sq_jobs[j].attempts = 0
           /\ Len(sq_queue) = 2
           /\ sq_queue[2] = j
           /\ \E w \in LoopId : sq_loops[w] = [pc |-> "exec",
                                                job |-> sq_queue[1]]

\* ------------------------------------------------------------------------
\* Properties of the temp file paths
\* ------------------------------------------------------------------------
\* C27: a temp file path belongs to the operation that created it: in
\* every interleaving no two operations write, read or delete the same
\* path, so none reads a file another one wrote or deletes a file another
\* one still uses.
C27_ExclusiveTempPaths ==
    /\ \A i, k \in 1..Len(tp_log) :
           tp_log[i].op # tp_log[k].op => tp_log[i].path # tp_log[k].path
    /\ \A o \in OpId :
           tp_ops[o].pc \in {"written", "read"} =>
               [path |-> tp_ops[o].path, by |-> o] \in tp_disk

====
